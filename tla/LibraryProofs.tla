--------------------------- MODULE LibraryProofs ----------------------------
(***************************************************************************)
(* The parts of the library, each of them for itself: key wrapping and CBC *)
(* with any permutation for the block cipher, which need no more of it     *)
(* than that it can be undone, counter mode, the dumps, the byte order     *)
(* helpers, OMAC of data cut into elements, and GHASH with the algebra of  *)
(* polynomials it rests on.  At the end they are put together: one         *)
(* invariant of a library of which any part may be at work.                *)
(* From CipherProofs come bytes and words under exclusive or.              *)
(***************************************************************************)
EXTENDS CipherProofs, Library, FiniteSetTheorems

-----------------------------------------------------------------------------
\* Key wrapping, whose block cipher is any permutation of pairs of halves.
\* Halves are bytes, and the counter can be added to them; keys are not empty.
WrapInputs ==
    /\ Wrap!IsCipher
    /\ ByteVals \in 2..256
    /\ Half \subseteq Byte /\ Wrap!Iv \in Half
    /\ \A x \in Half, k \in 0..(ByteVals - 1) : XorByte(x, k) \in Half
    /\ \A x \in SecretKeys : x \in Seq(Half) /\ x # <<>>

\* A and the n halves.
Wrapped(n) == [1..(n + 1) -> Half]

\* Step k of the definition, and what undoes it.
StepOf(x, c, k) == Wrap!WrapT(x, ByteVals, c, k)
BackOf(n, c, k) ==
    LET p == 2 + ((k - 1) % n)
        b == DecryptHalves(XorByte(c[1], k % ByteVals), c[p])
    IN  [c EXCEPT ![1] = b[1], ![p] = b[2]]

\* Their bytes are added like those of the cipher.
LEMMA SameXor ==
    \A b, c : Wrap!XorByte(b, c) = XorByte(b, c)
BY DEF Wrap!XorByte, XorByte, Wrap!XorNibble, XorNibble

\* The hypotheses, in these words.
LEMMA WrapInputsHold ==
    ASSUME Wrap!Inputs PROVE WrapInputs
BY SameXor DEF Wrap!Inputs, WrapInputs, Byte, Wrap!Byte

\* What is added twice is gone.
LEMMA AddTwiceByte ==
    ASSUME NEW a \in Byte, NEW b \in Byte
    PROVE  XorByte(XorByte(a, b), b) = a
BY XorAssociates, XorUnit

\* Step k works on a half behind A,
LEMMA PlaceIs ==
    ASSUME NEW n \in Nat \ {0}, NEW k \in Nat \ {0}
    PROVE  2 + ((k - 1) % n) \in 2..(n + 1)
<1>1. (k - 1) % n \in 0..(n - 1)
  OBVIOUS
<1> QED BY <1>1

\* and adds a counter that fits into a byte.
LEMMA CounterIs ==
    ASSUME WrapInputs, NEW k \in Nat
    PROVE  k % ByteVals \in 0..(ByteVals - 1) /\ k % ByteVals \in Byte
<1>1. ByteVals \in 2..256
  BY DEF WrapInputs
<1>2. k % ByteVals \in 0..(ByteVals - 1)
  BY <1>1
<1> QED BY <1>1, <1>2 DEF Byte

\* The steps keep the shape of the buffer, and each undoes the other.
LEMMA StepTypes ==
    ASSUME WrapInputs, NEW n \in Nat \ {0}, NEW c \in Wrapped(n), NEW k \in Nat \ {0},
           NEW x, Len(x) = n
    PROVE  /\ StepOf(x, c, k) \in Wrapped(n) /\ BackOf(n, c, k) \in Wrapped(n)
           /\ StepOf(x, BackOf(n, c, k), k) = c /\ BackOf(n, StepOf(x, c, k), k) = c
<1> DEFINE p == 2 + ((k - 1) % n)
           d == k % ByteVals
<1>1. p \in 2..(n + 1) /\ d \in 0..(ByteVals - 1) /\ d \in Byte
  BY PlaceIs, CounterIs
<1>2. \A v1 : StepOf(x, v1, k) = [v1 EXCEPT ![1] = XorByte(EncryptHalves(v1[1], v1[p])[1], d),
                                           ![p] = EncryptHalves(v1[1], v1[p])[2]]
  BY SameXor DEF StepOf, Wrap!WrapT
<1>3. \A v1 : BackOf(n, v1, k) = [v1 EXCEPT ![1] = DecryptHalves(XorByte(v1[1], d), v1[p])[1],
                                           ![p] = DecryptHalves(XorByte(v1[1], d), v1[p])[2]]
  BY DEF BackOf
<1> HIDE DEF p, d
<1>4. 1 \in 1..(n + 1) /\ p \in 1..(n + 1) /\ p # 1
  BY <1>1
<1>5. /\ \A u \in Half : XorByte(u, d) \in Half /\ XorByte(XorByte(u, d), d) = u
      /\ \A u, v \in Half :
           /\ EncryptHalves(u, v) \in Half \X Half /\ DecryptHalves(u, v) \in Half \X Half
           /\ DecryptHalves(EncryptHalves(u, v)[1], EncryptHalves(u, v)[2]) = <<u, v>>
           /\ EncryptHalves(DecryptHalves(u, v)[1], DecryptHalves(u, v)[2]) = <<u, v>>
  BY <1>1, AddTwiceByte DEF WrapInputs, Wrap!IsCipher
<1>6. c[1] \in Half /\ c[p] \in Half
  BY <1>4 DEF Wrapped
<1>7. ASSUME NEW u \in Half, NEW v \in Half
      PROVE  /\ [c EXCEPT ![1] = u, ![p] = v] \in Wrapped(n)
             /\ [c EXCEPT ![1] = u, ![p] = v][1] = u /\ [c EXCEPT ![1] = u, ![p] = v][p] = v
             /\ [[c EXCEPT ![1] = u, ![p] = v] EXCEPT ![1] = c[1], ![p] = c[p]] = c
  BY <1>4, <1>6 DEF Wrapped
<1>8. StepOf(x, c, k) \in Wrapped(n) /\ BackOf(n, StepOf(x, c, k), k) = c
  <2> DEFINE b == EncryptHalves(c[1], c[p])
  <2>1. b[1] \in Half /\ b[2] \in Half /\ DecryptHalves(b[1], b[2]) = <<c[1], c[p]>>
    BY <1>5, <1>6
  <2>2. XorByte(b[1], d) \in Half /\ XorByte(XorByte(b[1], d), d) = b[1]
    BY <1>5, <2>1
  <2> DEFINE w == StepOf(x, c, k)
  <2>3. w = [c EXCEPT ![1] = XorByte(b[1], d), ![p] = b[2]]
    BY <1>2
  <2> HIDE DEF b
  <2> DEFINE u == XorByte(b[1], d)  v == b[2]
  <2>4. w \in Wrapped(n) /\ w[1] = XorByte(b[1], d) /\ w[p] = b[2]
        /\ [w EXCEPT ![1] = c[1], ![p] = c[p]] = c
    <3>1. u \in Half /\ v \in Half /\ w = [c EXCEPT ![1] = u, ![p] = v]
      BY <2>1, <2>2, <2>3
    <3> HIDE DEF u, v, w
    <3>2. /\ w \in Wrapped(n) /\ w[1] = u /\ w[p] = v
          /\ [w EXCEPT ![1] = c[1], ![p] = c[p]] = c
      BY <1>7, <3>1
    <3> QED BY <3>2 DEF u, v
  <2>5. BackOf(n, w, k) = [w EXCEPT ![1] = DecryptHalves(XorByte(w[1], d), w[p])[1],
                                   ![p] = DecryptHalves(XorByte(w[1], d), w[p])[2]]
    BY <1>3
  <2> HIDE DEF w
  <2>6. DecryptHalves(XorByte(w[1], d), w[p]) = <<c[1], c[p]>>
    BY <2>1, <2>2, <2>4
  <2>7. BackOf(n, w, k) = c
    BY <2>4, <2>5, <2>6
  <2> QED BY <2>4, <2>7 DEF w
<1>9. BackOf(n, c, k) \in Wrapped(n) /\ StepOf(x, BackOf(n, c, k), k) = c
  <2> DEFINE b == DecryptHalves(XorByte(c[1], d), c[p])
             e == XorByte(c[1], d)
  <2>1. e \in Half /\ XorByte(e, d) = c[1]
    BY <1>5, <1>6
  <2>2. b[1] \in Half /\ b[2] \in Half /\ EncryptHalves(b[1], b[2]) = <<e, c[p]>>
    BY <1>5, <1>6, <2>1
  <2> DEFINE w == BackOf(n, c, k)
  <2>3. w = [c EXCEPT ![1] = b[1], ![p] = b[2]]
    BY <1>3
  <2> HIDE DEF b, e
  <2> DEFINE u == b[1]  v == b[2]
  <2>4. w \in Wrapped(n) /\ w[1] = b[1] /\ w[p] = b[2] /\ [w EXCEPT ![1] = c[1], ![p] = c[p]] = c
    <3>1. u \in Half /\ v \in Half /\ w = [c EXCEPT ![1] = u, ![p] = v]
      BY <2>2, <2>3
    <3> HIDE DEF u, v, w
    <3>2. /\ w \in Wrapped(n) /\ w[1] = u /\ w[p] = v
          /\ [w EXCEPT ![1] = c[1], ![p] = c[p]] = c
      BY <1>7, <3>1
    <3> QED BY <3>2 DEF u, v
  <2>5. StepOf(x, w, k) = [w EXCEPT ![1] = XorByte(EncryptHalves(w[1], w[p])[1], d),
                                   ![p] = EncryptHalves(w[1], w[p])[2]]
    BY <1>2
  <2> HIDE DEF w
  <2>6. EncryptHalves(w[1], w[p]) = <<e, c[p]>>
    BY <2>2, <2>4
  <2>7. StepOf(x, w, k) = c
    BY <2>1, <2>4, <2>5, <2>6
  <2> QED BY <2>4, <2>7 DEF w
<1> QED BY <1>8, <1>9

-----------------------------------------------------------------------------
\* The values f[lo], ..., f[hi] of the buffer, each a step after the one before.
WrapPath(f, x, lo, hi) ==
    /\ f \in [lo..hi -> Wrapped(Len(x))]
    /\ \A k \in (lo + 1)..hi : f[k] = StepOf(x, f[k - 1], k)

\* A path may go on by a step,
LEMMA WrapForward ==
    ASSUME WrapInputs, NEW x, Len(x) \in Nat \ {0}, NEW hi \in Nat, NEW f, WrapPath(f, x, 0, hi),
           NEW c, c = StepOf(x, f[hi], hi + 1)
    PROVE  /\ c \in Wrapped(Len(x))
           /\ \E h : WrapPath(h, x, 0, hi + 1) /\ h[0] = f[0] /\ h[hi + 1] = c
<1> DEFINE h == [k \in 0..(hi + 1) |-> IF k = hi + 1 THEN c ELSE f[k]]
<1>1. f \in [0..hi -> Wrapped(Len(x))] /\ \A k \in 1..hi : f[k] = StepOf(x, f[k - 1], k)
  <2>1. 0 + 1 = 1
    OBVIOUS
  <2> QED BY <2>1 DEF WrapPath
<1>2. c \in Wrapped(Len(x))
  <2>1. f[hi] \in Wrapped(Len(x)) /\ hi + 1 \in Nat \ {0}
    BY <1>1
  <2> QED BY <2>1, StepTypes
<1>3. \A k \in 0..(hi + 1) : h[k] = IF k = hi + 1 THEN c ELSE f[k]
  OBVIOUS
<1>4. h \in [0..(hi + 1) -> Wrapped(Len(x))]
  BY <1>1, <1>2
<1> HIDE DEF h
<1>5. ASSUME NEW k \in (0 + 1)..(hi + 1) PROVE h[k] = StepOf(x, h[k - 1], k)
  <2>1. /\ k \in 0..(hi + 1) /\ k - 1 \in 0..(hi + 1) /\ k - 1 # hi + 1
        /\ (k # hi + 1 => k \in 1..hi)
        /\ (k = hi + 1 => k - 1 = hi)
    OBVIOUS
  <2>2. h[k - 1] = f[k - 1]
    BY <1>3, <2>1
  <2>3. CASE k = hi + 1
    BY <1>3, <2>1, <2>2, <2>3
  <2>4. CASE k # hi + 1
    BY <1>1, <1>3, <2>1, <2>2, <2>4
  <2> QED BY <2>3, <2>4
<1>6. h[0] = f[0] /\ h[hi + 1] = c
  <2>1. 0 \in 0..(hi + 1) /\ 0 # hi + 1 /\ hi + 1 \in 0..(hi + 1)
    OBVIOUS
  <2> QED BY <1>3, <2>1
<1> QED BY <1>2, <1>4, <1>5, <1>6 DEF WrapPath

\* or begin one step earlier.
LEMMA WrapBackward ==
    ASSUME WrapInputs, NEW x, Len(x) \in Nat \ {0}, NEW lo \in Nat \ {0},
           NEW hi \in Nat, lo <= hi, NEW f, WrapPath(f, x, lo, hi),
           NEW c, c = BackOf(Len(x), f[lo], lo)
    PROVE  /\ c \in Wrapped(Len(x))
           /\ \E h : WrapPath(h, x, lo - 1, hi) /\ h[hi] = f[hi] /\ h[lo - 1] = c
<1> DEFINE h == [k \in (lo - 1)..hi |-> IF k = lo - 1 THEN c ELSE f[k]]
<1>1. f \in [lo..hi -> Wrapped(Len(x))] /\ \A k \in (lo + 1)..hi : f[k] = StepOf(x, f[k - 1], k)
  BY DEF WrapPath
<1>2. c \in Wrapped(Len(x)) /\ StepOf(x, c, lo) = f[lo]
  <2>1. f[lo] \in Wrapped(Len(x))
    BY <1>1
  <2> QED BY <2>1, StepTypes
<1>3. \A k \in (lo - 1)..hi : h[k] = IF k = lo - 1 THEN c ELSE f[k]
  OBVIOUS
<1>4. h \in [(lo - 1)..hi -> Wrapped(Len(x))]
  <2>1. \A k \in (lo - 1)..hi : k # lo - 1 => k \in lo..hi
    OBVIOUS
  <2> QED BY <1>1, <1>2, <2>1
<1> HIDE DEF h
<1>5. ASSUME NEW k \in ((lo - 1) + 1)..hi PROVE h[k] = StepOf(x, h[k - 1], k)
  <2>1. /\ k \in (lo - 1)..hi /\ k # lo - 1 /\ k - 1 \in (lo - 1)..hi
        /\ (k # lo => k \in (lo + 1)..hi)
        /\ (k - 1 = lo - 1 <=> k = lo)
    OBVIOUS
  <2>2. h[k] = f[k] /\ h[k - 1] = IF k = lo THEN c ELSE f[k - 1]
    BY <1>3, <2>1
  <2>3. CASE k = lo
    BY <1>2, <2>2, <2>3
  <2>4. CASE k # lo
    BY <1>1, <2>1, <2>2, <2>4
  <2> QED BY <2>3, <2>4
<1>6. h[hi] = f[hi] /\ h[lo - 1] = c
  <2>1. hi \in (lo - 1)..hi /\ hi # lo - 1 /\ lo - 1 \in (lo - 1)..hi
    OBVIOUS
  <2> QED BY <1>3, <2>1
<1> QED BY <1>2, <1>4, <1>5, <1>6 DEF WrapPath

\* Where a path ends follows from where it begins,
LEMMA SameStart ==
    ASSUME NEW x, NEW hi \in Nat, NEW f, NEW h, WrapPath(f, x, 0, hi), WrapPath(h, x, 0, hi),
           f[0] = h[0]
    PROVE  f[hi] = h[hi]
<1> DEFINE U == {k \in 0..hi : f[k] # h[k]}
<1>1. SUFFICES ASSUME f[hi] # h[hi] PROVE FALSE
  OBVIOUS
<1>2. U \subseteq Nat /\ U # {}
  BY <1>1
<1>3. PICK m \in U : \A k \in U : m <= k
  BY <1>2, LeastElement
<1>4. m \in 0..hi /\ f[m] # h[m] /\ m # 0
  OBVIOUS
<1>5. m - 1 \in 0..hi /\ ~(m <= m - 1) /\ m \in (0 + 1)..hi
  BY <1>4
<1>6. f[m - 1] = h[m - 1]
  BY <1>3, <1>5
<1>7. f[m] = StepOf(x, f[m - 1], m) /\ h[m] = StepOf(x, h[m - 1], m)
  BY <1>5 DEF WrapPath
<1> QED BY <1>4, <1>6, <1>7

\* and where it begins from where it ends, because every step can be undone.
LEMMA SameEnd ==
    ASSUME WrapInputs, NEW x, Len(x) \in Nat \ {0}, NEW hi \in Nat, NEW f, NEW h,
           WrapPath(f, x, 0, hi), WrapPath(h, x, 0, hi), f[hi] = h[hi]
    PROVE  f[0] = h[0]
<1> DEFINE U == {k \in 0..hi : f[hi - k] # h[hi - k]}
<1>1. SUFFICES ASSUME f[0] # h[0] PROVE FALSE
  OBVIOUS
<1>2. U \subseteq Nat /\ U # {}
  <2>1. hi \in 0..hi /\ hi - hi = 0
    OBVIOUS
  <2>2. hi \in U
    BY <1>1, <2>1
  <2>3. U \subseteq Nat
    OBVIOUS
  <2> HIDE DEF U
  <2> QED BY <2>2, <2>3
<1>3. PICK m \in U : \A k \in U : m <= k
  BY <1>2, LeastElement
<1>4. m \in 0..hi /\ f[hi - m] # h[hi - m] /\ m # 0
  <2>1. hi - 0 = hi
    OBVIOUS
  <2> QED BY <2>1
<1> DEFINE t == hi - (m - 1)
<1>5. /\ m - 1 \in 0..hi /\ ~(m <= m - 1) /\ t \in (0 + 1)..hi /\ t - 1 = hi - m
      /\ t - 1 \in 0..hi /\ t \in Nat \ {0}
  BY <1>4
<1>6. f[t] = h[t]
  BY <1>3, <1>5
<1> HIDE DEF t
<1>7. /\ f[t] = StepOf(x, f[t - 1], t) /\ h[t] = StepOf(x, h[t - 1], t)
      /\ f[t - 1] \in Wrapped(Len(x)) /\ h[t - 1] \in Wrapped(Len(x))
  BY <1>5 DEF WrapPath
<1>8. /\ BackOf(Len(x), StepOf(x, f[t - 1], t), t) = f[t - 1]
      /\ BackOf(Len(x), StepOf(x, h[t - 1], t), t) = h[t - 1]
  BY <1>5, <1>7, StepTypes
<1>9. f[t - 1] = h[t - 1]
  BY <1>6, <1>7, <1>8
<1> QED BY <1>4, <1>5, <1>9

\* The definition is the end of a path, for a limit that the counter does not tell
\* from a byte.
LEMMA WrappingIs ==
    ASSUME WrapInputs, NEW x, Len(x) \in Nat \ {0}, NEW limit,
           \A k \in 1..(6 * Len(x)) : k % limit = k % ByteVals,
           NEW f, WrapPath(f, x, 0, 6 * Len(x)), f[0] = <<Wrap!Iv>> \o x
    PROVE  Wrap!Wrapping(x, limit) = f[6 * Len(x)]
<1> DEFINE last == 6 * Len(x)
           P(h) == h = [k \in 0..(6 * Len(x)) |->
                          IF k = 0 THEN <<Wrap!Iv>> \o x ELSE Wrap!WrapT(x, limit, h[k - 1], k)]
           c == CHOOSE h : P(h)
<1>1. Wrap!Wrapping(x, limit) = c[6 * Len(x)]
  BY DEF Wrap!Wrapping
<1>2. last \in Nat
  OBVIOUS
<1>3. \A k \in 1..last : \A w : Wrap!WrapT(x, limit, w, k) = StepOf(x, w, k)
  BY DEF Wrap!WrapT, StepOf
<1>4. /\ f = [k \in 0..last |-> f[k]]
      /\ \A k \in (0 + 1)..last : f[k] = StepOf(x, f[k - 1], k)
  BY DEF WrapPath
<1>5. P(f)
  <2>1. \A k \in 0..last : f[k] = IF k = 0 THEN <<Wrap!Iv>> \o x
                                  ELSE Wrap!WrapT(x, limit, f[k - 1], k)
    <3> TAKE k \in 0..last
    <3>1. CASE k = 0
      BY <3>1
    <3>2. CASE k # 0
      <4>1. k \in 1..last /\ k \in (0 + 1)..last
        BY <1>2, <3>2
      <4> HIDE DEF last
      <4> QED BY <1>3, <1>4, <3>2, <4>1
    <3> QED BY <3>1, <3>2
  <2> QED BY <1>4, <2>1
<1>6. P(c)
  <2> HIDE DEF P
  <2> QED BY <1>5
<1>7. \A k \in 0..last : c[k] = IF k = 0 THEN <<Wrap!Iv>> \o x
                                ELSE Wrap!WrapT(x, limit, c[k - 1], k)
  <2> HIDE DEF c
  <2>1. \A h : P(h) => \A k \in 0..last : h[k] = IF k = 0 THEN <<Wrap!Iv>> \o x
                                ELSE Wrap!WrapT(x, limit, h[k - 1], k)
    OBVIOUS
  <2> HIDE DEF P
  <2> QED BY <1>6, <2>1
<1> HIDE DEF c, P
<1> DEFINE U == {k \in 0..last : f[k] # c[k]}
<1>8. U = {}
  <2>1. SUFFICES ASSUME U # {} PROVE FALSE
    OBVIOUS
  <2>2. U \subseteq Nat
    BY <1>2
  <2>3. PICK m \in U : \A k \in U : m <= k
    BY <2>1, <2>2, LeastElement
  <2>4. m \in 0..last /\ f[m] # c[m]
    OBVIOUS
  <2>5. m # 0
    BY <1>7, <2>4
  <2>6. m - 1 \in 0..last /\ ~(m <= m - 1) /\ m \in 1..last /\ m \in (0 + 1)..last
    BY <1>2, <2>4, <2>5
  <2>7. f[m - 1] = c[m - 1]
    BY <2>3, <2>6
  <2> HIDE DEF last
  <2> QED BY <1>3, <1>4, <1>7, <2>4, <2>5, <2>6, <2>7
<1> QED BY <1>1, <1>2, <1>8

-----------------------------------------------------------------------------
\* Where a call is among the 6 * n steps.
LEMMA PlaceOfCounter ==
    ASSUME NEW n \in Nat \ {0}, NEW w \in 0..5, NEW p \in 1..n
    PROVE  /\ n * w + p \in 1..(6 * n)
           /\ 2 + (((n * w + p) - 1) % n) = p + 1
<1>1. n * w \in Nat /\ n * w <= 5 * n
  <2>1. w \in {0, 1, 2, 3, 4, 5}
    OBVIOUS
  <2> QED BY <2>1
<1> DEFINE m == n * w
           e == (m + p) - 1
           q == e \div n
           d == e % n
<1>2. e \in Nat /\ e = m + (p - 1)
  BY <1>1
<1>3. q \in Int /\ d \in 0..(n - 1) /\ e = (n * q) + d
  <2> HIDE DEF e
  <2> QED BY <1>2
<1> HIDE DEF q, d
<1>4. q = w
  <2>1. q <= w
    <3>1. SUFFICES ASSUME q >= w + 1 PROVE FALSE
      BY <1>3
    <3>2. n * q >= n * (w + 1)
      BY <1>3, <3>1
    <3>3. n * (w + 1) = m + n
      OBVIOUS
    <3> HIDE DEF m, e
    <3>4. n * q \in Int /\ m \in Int
      BY <1>1, <1>3 DEF m
    <3> QED BY <1>2, <1>3, <3>2, <3>3, <3>4
  <2>2. w <= q
    <3>1. SUFFICES ASSUME w >= q + 1 PROVE FALSE
      BY <1>3
    <3>2. n * w >= n * (q + 1)
      BY <1>3, <3>1
    <3>3. n * (q + 1) = (n * q) + n
      BY <1>3
    <3>4. n * q \in Int /\ m \in Int
      BY <1>1, <1>3
    <3> HIDE DEF e
    <3> QED BY <1>2, <1>3, <3>2, <3>3, <3>4
  <2> QED BY <1>3, <2>1, <2>2
<1>5. d = p - 1
  <2> HIDE DEF e
  <2> QED BY <1>1, <1>2, <1>3, <1>4
<1> QED BY <1>1, <1>5 DEF d

\* Multiples of n.
LEMMA SixTimes ==
    ASSUME NEW n \in Nat \ {0}
    PROVE  /\ (n * 6) + 0 = 6 * n /\ n * 0 + 0 = 0 /\ n * (-1) + n = 0 /\ (n * 5) + n = 6 * n
           /\ \A w \in -1..6 : /\ n * w \in Int /\ n * (w + 1) = (n * w) + n
                               /\ n * (w - 1) = (n * w) - n
  OBVIOUS

\* From every start there is a path as long as one likes.
LEMMA PathExists ==
    ASSUME WrapInputs, NEW x, Len(x) \in Nat \ {0}, NEW c \in Wrapped(Len(x)), NEW hi \in Nat
    PROVE  \E f : WrapPath(f, x, 0, hi) /\ f[0] = c
<1> DEFINE Has(m) == \E f : WrapPath(f, x, 0, m) /\ f[0] = c
           U == {m \in Nat : ~Has(m)}
<1>1. SUFFICES ASSUME ~Has(hi) PROVE FALSE
  OBVIOUS
<1>2. Has(0)
  <2> DEFINE f == [k \in 0..0 |-> c]
  <2>1. f \in [0..0 -> Wrapped(Len(x))] /\ f[0] = c /\ \A k \in (0 + 1)..0 : FALSE
    OBVIOUS
  <2> HIDE DEF f
  <2> QED BY <2>1 DEF WrapPath
<1>3. ASSUME NEW m \in Nat, Has(m) PROVE Has(m + 1)
  <2>1. PICK f : WrapPath(f, x, 0, m) /\ f[0] = c
    BY <1>3
  <2> DEFINE b == StepOf(x, f[m], m + 1)
  <2>2. \E h : WrapPath(h, x, 0, m + 1) /\ h[0] = f[0] /\ h[m + 1] = b
    BY <2>1, WrapForward
  <2> QED BY <2>1, <2>2
<1> HIDE DEF Has
<1>4. U \subseteq Nat /\ U # {}
  BY <1>1
<1>5. PICK m \in U : \A k \in U : m <= k
  BY <1>4, LeastElement
<1>6. m \in Nat /\ ~Has(m) /\ m # 0
  BY <1>2
<1>7. m - 1 \in Nat /\ ~(m <= m - 1) /\ (m - 1) + 1 = m
  BY <1>6
<1>8. Has(m - 1)
  BY <1>5, <1>7
<1> QED BY <1>3, <1>6, <1>7, <1>8

\* A and the halves behind it.
LEMMA WholeIs ==
    ASSUME NEW H, NEW v \in H, NEW x \in Seq(H)
    PROVE  /\ <<v>> \o x \in [1..(Len(x) + 1) -> H]
           /\ (<<v>> \o x)[1] = v
           /\ \A k \in 1..Len(x) : (<<v>> \o x)[k + 1] = x[k]
<1>1. Len(<<v>>) = 1 /\ <<v>>[1] = v /\ <<v>> \in Seq(H) /\ Len(x) \in Nat
  OBVIOUS
<1>2. <<v>> \o x \in Seq(H) /\ Len(<<v>> \o x) = Len(x) + 1
  BY <1>1
<1>3. <<v>> \o x \in [1..(Len(x) + 1) -> H]
  <2>1. \A y \in Seq(H) : y \in [1..Len(y) -> H]
    OBVIOUS
  <2> QED BY <1>2, <2>1, Zenon
<1>4. (<<v>> \o x)[1] = v
  BY <1>1
<1>5. ASSUME NEW k \in 1..Len(x) PROVE (<<v>> \o x)[k + 1] = x[k]
  <2>1. k + 1 > Len(<<v>>) /\ k + 1 \in 1..(Len(<<v>>) + Len(x)) /\ (k + 1) - Len(<<v>>) = k
    BY <1>1
  <2> QED BY <2>1, <1>1
<1> QED BY <1>3, <1>4, <1>5

-----------------------------------------------------------------------------
\* Steps lo + 1 to hi lead from b to c.
Reaches(x, lo, hi, b, c) ==
    \E f : WrapPath(f, x, lo, hi) /\ f[lo] = b /\ f[hi] = c

\* It takes no step to stay,
LEMMA ReachesSelf ==
    ASSUME NEW x, NEW k \in Nat, NEW c \in Wrapped(Len(x))
    PROVE  Reaches(x, k, k, c, c)
<1> DEFINE f == [m \in k..k |-> c]
<1>1. f \in [k..k -> Wrapped(Len(x))] /\ f[k] = c /\ \A m \in (k + 1)..k : FALSE
  OBVIOUS
<1> HIDE DEF f
<1> QED BY <1>1 DEF WrapPath, Reaches

\* the ends have the shape of the buffer,
LEMMA ReachesTypes ==
    ASSUME NEW x, NEW lo \in Nat, NEW hi \in Nat, lo <= hi, NEW b, NEW c, Reaches(x, lo, hi, b, c)
    PROVE  b \in Wrapped(Len(x)) /\ c \in Wrapped(Len(x))
<1>1. lo \in lo..hi /\ hi \in lo..hi
  OBVIOUS
<1> QED BY <1>1 DEF WrapPath, Reaches

\* one step more at the end,
LEMMA ReachesOn ==
    ASSUME WrapInputs, NEW x, Len(x) \in Nat \ {0}, NEW hi \in Nat, NEW b, NEW c,
           Reaches(x, 0, hi, b, c)
    PROVE  Reaches(x, 0, hi + 1, b, StepOf(x, c, hi + 1))
<1>1. PICK f : WrapPath(f, x, 0, hi) /\ f[0] = b /\ f[hi] = c
  BY DEF Reaches
<1> DEFINE d == StepOf(x, f[hi], hi + 1)
<1>2. \E h : WrapPath(h, x, 0, hi + 1) /\ h[0] = f[0] /\ h[hi + 1] = d
  BY <1>1, WrapForward
<1> QED BY <1>1, <1>2 DEF Reaches

\* or at the beginning;
LEMMA ReachesBack ==
    ASSUME WrapInputs, NEW x, Len(x) \in Nat \ {0}, NEW lo \in Nat \ {0},
           NEW hi \in Nat, lo <= hi, NEW b, NEW c, Reaches(x, lo, hi, b, c)
    PROVE  Reaches(x, lo - 1, hi, BackOf(Len(x), b, lo), c)
<1>1. PICK f : WrapPath(f, x, lo, hi) /\ f[lo] = b /\ f[hi] = c
  BY DEF Reaches
<1> DEFINE d == BackOf(Len(x), f[lo], lo)
<1>2. \E h : WrapPath(h, x, lo - 1, hi) /\ h[hi] = f[hi] /\ h[lo - 1] = d
  BY <1>1, WrapBackward
<1> QED BY <1>1, <1>2 DEF Reaches

\* there is one beginning for an end,
LEMMA ReachesOne ==
    ASSUME WrapInputs, NEW x, Len(x) \in Nat \ {0}, NEW hi \in Nat, NEW b, NEW d, NEW c,
           Reaches(x, 0, hi, b, c), Reaches(x, 0, hi, d, c)
    PROVE  b = d
<1>1. PICK f : WrapPath(f, x, 0, hi) /\ f[0] = b /\ f[hi] = c
  BY DEF Reaches
<1>2. PICK h : WrapPath(h, x, 0, hi) /\ h[0] = d /\ h[hi] = c
  BY DEF Reaches
<1> QED BY <1>1, <1>2, SameEnd

\* and some end for every beginning.
LEMMA ReachesSome ==
    ASSUME WrapInputs, NEW x, Len(x) \in Nat \ {0}, NEW b \in Wrapped(Len(x)), NEW hi \in Nat
    PROVE  \E c : Reaches(x, 0, hi, b, c)
<1>1. PICK f : WrapPath(f, x, 0, hi) /\ f[0] = b
  BY PathExists
<1> QED BY <1>1 DEF Reaches

\* Of the key only its length matters.
LEMMA ReachesSame ==
    ASSUME NEW x, NEW y, Len(x) = Len(y), NEW lo, NEW hi, NEW b, NEW c, Reaches(x, lo, hi, b, c)
    PROVE  Reaches(y, lo, hi, b, c)
<1>1. \A v, k : StepOf(x, v, k) = StepOf(y, v, k)
  BY DEF StepOf, Wrap!WrapT
<1>2. \A f : WrapPath(f, x, lo, hi) => WrapPath(f, y, lo, hi)
  BY <1>1, Zenon DEF WrapPath
<1> QED BY <1>2, Zenon DEF Reaches

\* The definition is what is reached from the key.
LEMMA WrappingReaches ==
    ASSUME WrapInputs, NEW x, Len(x) \in Nat \ {0}, NEW limit,
           \A k \in 1..(6 * Len(x)) : k % limit = k % ByteVals,
           NEW c, Reaches(x, 0, 6 * Len(x), <<Wrap!Iv>> \o x, c)
    PROVE  Wrap!Wrapping(x, limit) = c
<1>1. PICK f : WrapPath(f, x, 0, 6 * Len(x)) /\ f[0] = <<Wrap!Iv>> \o x /\ f[6 * Len(x)] = c
  BY DEF Reaches
<1> QED BY <1>1, WrappingIs

\* A half is replaced, A is put before the halves; the counter of step k, and its half.
Put(x, p, b) == [x EXCEPT ![p] = b]
Ahead(v, x) == <<v>> \o x
CounterByte(k) == k % ByteVals
PlaceAt(n, k) == ((k - 1) % n) + 1

\* A turn of the loop of the unwrapping keeps the types,
LEMMA UnwrapStepTypes ==
    ASSUME WrapInputs, NEW v, v \in Half, NEW x, x \in Seq(Half), Len(x) \in Nat \ {0},
           NEW t, t \in Nat \ {0}, NEW p, p = PlaceAt(Len(x), t),
           NEW b, b = DecryptHalves(XorByte(v, CounterByte(t)), x[p])
    PROVE  b \in Half \X Half /\ Put(x, p, b[2]) \in Seq(Half) /\ p \in 1..Len(x)
<1> DEFINE n == Len(x)
<1>0. n \in Nat \ {0} /\ Len(x) = n
  OBVIOUS
<1> HIDE DEF n
<1> DEFINE y == Put(x, p, b[2])
<1>1. 2 + ((t - 1) % n) = p + 1 /\ p \in 1..n
  <2>1. (t - 1) % n \in 0..(n - 1)
    BY <1>0
  <2>2. p = ((t - 1) % n) + 1
    BY <1>0 DEF PlaceAt
  <2> QED BY <1>0, <2>1, <2>2
<1>2. CounterByte(t) \in 0..(ByteVals - 1)
  BY CounterIs DEF CounterByte
<1>3. b \in Half \X Half /\ b[1] \in Half /\ b[2] \in Half
  <2>1. x[p] \in Half /\ XorByte(v, CounterByte(t)) \in Half
    BY <1>0, <1>1, <1>2 DEF WrapInputs
  <2> QED BY <2>1 DEF WrapInputs, Wrap!IsCipher
<1>4. y \in Seq(Half) /\ Len(y) = n /\ \A k \in 1..n : y[k] = IF k = p THEN b[2] ELSE x[k]
  BY <1>0, <1>1, <1>3 DEF Put
<1> QED BY <1>0, <1>1, <1>3, <1>4

\* and undoes a step.
LEMMA UnwrapStepIs ==
    ASSUME WrapInputs, NEW v, v \in Half, NEW x, x \in Seq(Half), Len(x) \in Nat \ {0},
           NEW t, t \in Nat \ {0}, NEW p, p = PlaceAt(Len(x), t),
           NEW b, b = DecryptHalves(XorByte(v, CounterByte(t)), x[p])
    PROVE  BackOf(Len(x), Ahead(v, x), t) = Ahead(b[1], Put(x, p, b[2]))
<1> DEFINE n == Len(x)
<1>0. n \in Nat \ {0} /\ Len(x) = n
  OBVIOUS
<1> HIDE DEF n
<1> DEFINE c == <<v>> \o x
           y == Put(x, p, b[2])
<1>1. 2 + ((t - 1) % n) = p + 1 /\ p \in 1..n
  <2>1. (t - 1) % n \in 0..(n - 1)
    BY <1>0
  <2>2. p = ((t - 1) % n) + 1
    BY <1>0 DEF PlaceAt
  <2> QED BY <1>0, <2>1, <2>2
<1>2. CounterByte(t) \in 0..(ByteVals - 1)
  BY CounterIs DEF CounterByte
<1>3. b[1] \in Half /\ b[2] \in Half
  <2>1. x[p] \in Half /\ XorByte(v, CounterByte(t)) \in Half
    BY <1>0, <1>1, <1>2 DEF WrapInputs
  <2> QED BY <2>1 DEF WrapInputs, Wrap!IsCipher
<1>4. y \in Seq(Half) /\ Len(y) = n /\ \A k \in 1..n : y[k] = IF k = p THEN b[2] ELSE x[k]
  BY <1>0, <1>1, <1>3 DEF Put
<1>5. c \in Wrapped(n) /\ c[1] = v /\ \A k \in 1..n : c[k + 1] = x[k]
  BY <1>0, WholeIs DEF Wrapped
<1> DEFINE e == <<b[1]>> \o y
<1>6. e \in Wrapped(n) /\ e[1] = b[1] /\ \A k \in 1..n : e[k + 1] = y[k]
  <2> HIDE DEF y
  <2> QED BY <1>0, <1>3, <1>4, WholeIs DEF Wrapped
<1> HIDE DEF c, e, y
<1>7. DecryptHalves(XorByte(c[1], CounterByte(t)), c[p + 1]) = b
  BY <1>1, <1>5
<1>8. BackOf(n, c, t) = [c EXCEPT ![1] = b[1], ![p + 1] = b[2]]
  BY <1>1, <1>7 DEF BackOf, CounterByte
<1>9. [c EXCEPT ![1] = b[1], ![p + 1] = b[2]] = e
  <2> DEFINE d == [c EXCEPT ![1] = b[1], ![p + 1] = b[2]]
  <2>1. d \in [1..(n + 1) -> Half]
    BY <1>3, <1>5 DEF Wrapped
  <2>2. ASSUME NEW k \in 1..(n + 1) PROVE d[k] = e[k]
    <3>1. CASE k = 1
      <4>1. d[1] = b[1]
        <5>1. 1 \in 1..(n + 1) /\ 1 # p + 1
          BY <1>0, <1>1
        <5> QED BY <5>1, <1>5 DEF Wrapped
      <4> QED BY <3>1, <4>1, <1>6
    <3>2. CASE k # 1
      <4>1. k - 1 \in 1..n /\ (k - 1) + 1 = k /\ (k = p + 1 <=> k - 1 = p)
        BY <1>0, <1>1, <3>2
      <4>2. d[k] = IF k = p + 1 THEN b[2] ELSE c[k]
        BY <1>5, <3>2 DEF Wrapped
      <4> HIDE DEF d
      <4>3. e[k] = y[k - 1] /\ (c[k] = x[k - 1])
        BY <1>5, <1>6, <4>1
      <4> QED BY <1>4, <4>1, <4>2, <4>3
    <3> QED BY <3>1, <3>2
  <2> HIDE DEF d
  <2>3. d = e
    <3> DEFINE D == 1..(n + 1)
    <3>1. d \in [D -> Half] /\ e \in [D -> Half] /\ \A k \in D : d[k] = e[k]
      BY <1>6, <2>1, <2>2 DEF Wrapped
    <3> HIDE DEF D
    <3> QED BY <3>1
  <2> QED BY <2>3 DEF d
<1>10. BackOf(n, c, t) = e
  BY <1>8, <1>9
<1> QED BY <1>0, <1>10 DEF c, e, y, Ahead

-----------------------------------------------------------------------------
\* The key with the initial value before it, and what a call of aes_unwrap has.
WrapStart == <<Wrap!Iv>> \o wKey
Unwrapping == <<wA>> \o wPlain
Count == Len(wKey)

\* The types: a key, and buffers that hold as many halves while they are used.
WrapTypes ==
    /\ wKey \in SecretKeys
    /\ wPc \in {"idle", "wrap_init", "wrap", "unwrap_init", "unwrap", "unwrapped"}
    /\ wPc = "wrap" => wJ \in 0..6 /\ wI \in 1..Count /\ (wJ = 6 => wI = 1)
    /\ wPc = "unwrap" => wJ \in -1..5 /\ wI \in 1..Count /\ (wJ = -1 => wI = Count)
    /\ wPc \in {"unwrap_init", "unwrap", "unwrapped"} =>
         /\ wWrapped # Wrap!Nothing
         /\ wA \in Half
         /\ wPlain \in Seq(Half) /\ Len(wPlain) = Count

\* What a call has got to is on the way the definition goes: from the key on, if
\* it wraps, and back from what it was given, if it unwraps.
WrapWay ==
    /\ wPc = "wrap_init" => wCipher = WrapStart
    /\ wPc = "wrap" => Reaches(wKey, 0, (Count * wJ) + (wI - 1), WrapStart, wCipher)
    /\ wWrapped # Wrap!Nothing => Reaches(wKey, 0, 6 * Count, WrapStart, wWrapped)
    /\ wPc = "unwrap_init" => Unwrapping = wCipher
    /\ wPc = "unwrap" =>
         Reaches(wKey, (Count * wJ) + wI, 6 * Count, Unwrapping, wCipher)
    /\ wPc = "unwrapped" =>
         /\ Reaches(wKey, 0, 6 * Count, Unwrapping, wCipher)
         /\ wRet = IF wA = Wrap!Iv THEN 0 ELSE -1

\* The invariant.
WrapInv == WrapTypes /\ WrapWay

\* What is known of a key.
LEMMA KeyIs ==
    ASSUME WrapInputs, wKey \in SecretKeys
    PROVE  /\ wKey \in Seq(Half) /\ Count \in Nat \ {0} /\ Len(wKey) = Count
           /\ WrapStart \in Wrapped(Count) /\ Wrap!n = Count
<1>1. wKey \in Seq(Half) /\ wKey # <<>> /\ Wrap!Iv \in Half
  BY DEF WrapInputs
<1>2. Count \in Nat \ {0}
  BY <1>1 DEF Count
<1>3. WrapStart \in Wrapped(Count)
  BY <1>1, WholeIs DEF WrapStart, Wrapped, Count
<1> QED BY <1>1, <1>2, <1>3 DEF Count, Wrap!n

\* It holds before the first call,
LEMMA WrapStarts ==
    ASSUME WrapInputs, Wrap!Init PROVE WrapInv
  BY DEF Wrap!Init, WrapInv, WrapTypes, WrapWay

\* when one begins to wrap or fails,
LEMMA WrapCallStep ==
    ASSUME WrapInputs, WrapInv, Wrap!Wrap \/ Wrap!InitFails PROVE WrapInv'
<1>1. CASE Wrap!Wrap
  BY <1>1 DEF Wrap!Wrap, WrapInv, WrapTypes, WrapWay, WrapStart, Count, Unwrapping
<1>2. CASE Wrap!InitFails
  BY <1>2 DEF Wrap!InitFails, WrapInv, WrapTypes, WrapWay, WrapStart, Count, Unwrapping
<1> QED BY <1>1, <1>2

\* when the loop begins,
LEMMA WrapInitStep ==
    ASSUME WrapInputs, WrapInv, Wrap!WrapInit PROVE WrapInv'
<1>1. wKey' = wKey /\ Count' = Count /\ WrapStart' = WrapStart /\ wPc' = "wrap" /\ wJ' = 0 /\ wI' = 1
      /\ wCipher' = wCipher /\ wWrapped' = wWrapped /\ wPc = "wrap_init"
  BY DEF Wrap!WrapInit, Count, WrapStart
<1>2. /\ Count \in Nat \ {0} /\ WrapStart \in Wrapped(Len(wKey)) /\ wCipher = WrapStart
      /\ wKey \in SecretKeys
  BY <1>1, KeyIs DEF WrapInv, WrapTypes, WrapWay
<1>3. (Count * 0) + (1 - 1) = 0
  BY <1>2
<1>4. Reaches(wKey, 0, (Count * 0) + (1 - 1), WrapStart, wCipher)
  BY <1>2, <1>3, ReachesSelf
<1>5. WrapTypes'
  BY <1>1, <1>2 DEF WrapTypes
<1>6. WrapWay'
  BY <1>1, <1>4 DEF WrapInv, WrapWay
<1> QED BY <1>5, <1>6 DEF WrapInv

\* in a turn of it, within a round or into the next one,
LEMMA WrapLoopStep ==
    ASSUME WrapInputs, WrapInv, Wrap!WrapStep PROVE WrapInv'
<1>1. /\ wKey' = wKey /\ Count' = Count /\ WrapStart' = WrapStart /\ wPc' = "wrap"
      /\ wWrapped' = wWrapped /\ wPc = "wrap" /\ wJ <= 5
  BY DEF Wrap!WrapStep, Count, WrapStart
<1>2. /\ wKey \in SecretKeys /\ wJ \in 0..6 /\ wI \in 1..Count
      /\ Reaches(wKey, 0, (Count * wJ) + (wI - 1), WrapStart, wCipher)
  BY <1>1 DEF WrapInv, WrapTypes, WrapWay
<1>3. Count \in Nat \ {0} /\ Len(wKey) = Count /\ Wrap!n = Count
  BY <1>2, KeyIs
<1>4. wJ \in 0..5
  BY <1>1, <1>2
<1> DEFINE t == (Count * wJ) + wI
           d == StepOf(wKey, wCipher, t)
<1>5. /\ t \in 1..(6 * Count) /\ Count * wJ \in Int
      /\ (Count * wJ) + (wI - 1) \in Nat /\ ((Count * wJ) + (wI - 1)) + 1 = t
  <2>1. t \in 1..(6 * Count)
    BY <1>2, <1>3, <1>4, PlaceOfCounter
  <2>2. Count * wJ \in Int /\ wI \in Int
    BY <1>2, <1>3
  <2> QED BY <2>1, <2>2
<1>6. Reaches(wKey, 0, t, WrapStart, d)
  <2> DEFINE hi == (Count * wJ) + (wI - 1)
  <2>1. hi \in Nat /\ hi + 1 = t
    BY <1>5
  <2> HIDE DEF hi, t
  <2>2. Reaches(wKey, 0, hi, WrapStart, wCipher)
    BY <1>2 DEF hi
  <2>3. Reaches(wKey, 0, hi + 1, WrapStart, StepOf(wKey, wCipher, hi + 1))
    BY <1>3, <2>1, <2>2, ReachesOn
  <2> QED BY <2>1, <2>3
<1>7. wCipher' = d
  <2>0. 2 + ((t - 1) % Len(wKey)) = wI + 1
    BY <1>2, <1>3, <1>4, PlaceOfCounter
  <2>2. Wrap!StepByte = t % ByteVals
    BY <1>3 DEF Wrap!StepByte
  <2> HIDE DEF d, t
  <2>1. d = [wCipher EXCEPT
               ![1] = XorByte(EncryptHalves(wCipher[1], wCipher[wI + 1])[1], t % ByteVals),
               ![wI + 1] = EncryptHalves(wCipher[1], wCipher[wI + 1])[2]]
    BY <2>0, SameXor DEF d, StepOf, Wrap!WrapT
  <2> QED BY <2>1, <2>2, SameXor DEF Wrap!WrapStep
<1>8. /\ wJ' \in 0..6 /\ wI' \in 1..Count /\ (wJ' = 6 => wI' = 1)
      /\ (Count * wJ') + (wI' - 1) = t
  <2>1. CASE wI < Count
    <3>1. wI' = wI + 1 /\ wJ' = wJ
      BY <1>3, <2>1 DEF Wrap!WrapStep
    <3>2. wI + 1 \in 1..Count /\ (wI + 1) - 1 = wI
      BY <1>2, <1>3, <2>1
    <3> QED BY <1>2, <1>4, <3>1, <3>2
  <2>2. CASE ~(wI < Count)
    <3>1. wI' = 1 /\ wJ' = wJ + 1
      BY <1>3, <2>2 DEF Wrap!WrapStep
    <3>2. wI = Count
      BY <1>2, <1>3, <2>2
    <3>3. Count * (wJ + 1) = (Count * wJ) + Count
      BY <1>2, <1>3, SixTimes
    <3>4. (Count * (wJ + 1)) + (1 - 1) = t
      BY <1>3, <1>5, <3>2, <3>3
    <3> HIDE DEF t
    <3>5. wJ + 1 \in 0..6 /\ 1 \in 1..Count
      BY <1>3, <1>4
    <3> QED BY <3>1, <3>4, <3>5
  <2> QED BY <2>1, <2>2
<1> HIDE DEF t, d
<1>9. WrapTypes'
  BY <1>1, <1>2, <1>8 DEF WrapTypes
<1>10. WrapWay'
  BY <1>1, <1>6, <1>7, <1>8 DEF WrapInv, WrapWay
<1> QED BY <1>9, <1>10 DEF WrapInv

\* and when what was wrapped is handed over.
LEMMA WrapReturnStep ==
    ASSUME WrapInputs, WrapInv, Wrap!WrapReturn PROVE WrapInv'
<1>1. /\ wKey' = wKey /\ Count' = Count /\ WrapStart' = WrapStart /\ wPc' = "idle"
      /\ wWrapped' = wCipher /\ wPc = "wrap" /\ wJ > 5
  BY DEF Wrap!WrapReturn, Count, WrapStart
<1>2. /\ wKey \in SecretKeys /\ wJ \in 0..6 /\ (wJ = 6 => wI = 1)
      /\ Reaches(wKey, 0, (Count * wJ) + (wI - 1), WrapStart, wCipher)
  BY <1>1 DEF WrapInv, WrapTypes, WrapWay
<1>3. Count \in Nat \ {0}
  BY <1>2, KeyIs
<1>4. wJ = 6 /\ wI = 1
  BY <1>1, <1>2
<1>5. (Count * 6) + (1 - 1) = 6 * Count
  BY <1>3
<1>6. Reaches(wKey, 0, 6 * Count, WrapStart, wCipher)
  BY <1>2, <1>4, <1>5
<1>7. WrapTypes'
  BY <1>1, <1>2 DEF WrapTypes
<1>8. WrapWay'
  BY <1>1, <1>6 DEF WrapInv, WrapWay
<1> QED BY <1>7, <1>8 DEF WrapInv

\* The peer gives back what it got, or changes it;
LEMMA UnwrapCallStep ==
    ASSUME WrapInputs, WrapInv, Wrap!Unwrap PROVE WrapInv'
<1>1. /\ wKey' = wKey /\ Count' = Count /\ WrapStart' = WrapStart /\ wPc' = "unwrap_init"
      /\ wWrapped' = wWrapped /\ wWrapped # Wrap!Nothing
      /\ wA' = wCipher'[1] /\ wPlain' = Tail(wCipher')
      /\ \/ wCipher' = wWrapped
         \/ \E p \in DOMAIN wWrapped : wCipher' = [wWrapped EXCEPT ![p] = XorByte(@, 1)]
  BY SameXor DEF Wrap!Unwrap, Count, WrapStart
<1>2. wKey \in SecretKeys /\ Reaches(wKey, 0, 6 * Count, WrapStart, wWrapped)
  BY <1>1 DEF WrapInv, WrapTypes, WrapWay
<1>3. Count \in Nat \ {0} /\ Len(wKey) = Count
  BY <1>2, KeyIs
<1>4. wWrapped \in Wrapped(Count)
  <2>1. 6 * Count \in Nat /\ 0 <= 6 * Count
    BY <1>3
  <2> QED BY <1>2, <1>3, <2>1, ReachesTypes
<1>5. wCipher' \in Wrapped(Count)
  <2>1. CASE wCipher' = wWrapped
    BY <1>4, <2>1
  <2>2. ASSUME NEW p \in DOMAIN wWrapped, wCipher' = [wWrapped EXCEPT ![p] = XorByte(@, 1)]
        PROVE  wCipher' \in Wrapped(Count)
    <3>1. 1 \in 0..(ByteVals - 1) /\ p \in 1..(Count + 1) /\ wWrapped[p] \in Half
      BY <1>4 DEF WrapInputs, Wrapped
    <3>2. XorByte(wWrapped[p], 1) \in Half
      BY <3>1 DEF WrapInputs
    <3> QED BY <1>4, <2>2, <3>2 DEF Wrapped
  <2> QED BY <1>1, <2>1, <2>2
<1> DEFINE c == wCipher'
<1>6. c[1] \in Half /\ Tail(c) \in Seq(Half) /\ Len(Tail(c)) = Count /\ <<c[1]>> \o Tail(c) = c
  <2> HIDE DEF c
  <2>1. c \in [1..(Count + 1) -> Half]
    BY <1>5 DEF Wrapped, c
  <2>2. c \in Seq(Half) /\ Len(c) = Count + 1 /\ c # <<>>
    BY <1>3, <2>1
  <2>3. Tail(c) \in Seq(Half) /\ Len(Tail(c)) = Count /\ \A k \in 1..Count : Tail(c)[k] = c[k + 1]
    BY <1>3, <2>2
  <2>4. c[1] \in Half
    BY <1>3, <2>1
  <2> DEFINE y == Tail(c)
             e == <<c[1]>> \o y
  <2>5. e \in [1..(Count + 1) -> Half] /\ e[1] = c[1] /\ \A k \in 1..Count : e[k + 1] = y[k]
    <3>1. y \in Seq(Half) /\ Len(y) = Count
      BY <2>3
    <3> HIDE DEF y
    <3> QED BY <2>4, <3>1, WholeIs
  <2> HIDE DEF e
  <2>6. ASSUME NEW k \in 1..(Count + 1) PROVE e[k] = c[k]
    <3>1. CASE k = 1
      BY <2>5, <3>1
    <3>2. CASE k # 1
      <4>1. k - 1 \in 1..Count /\ (k - 1) + 1 = k
        BY <1>3, <3>2
      <4> QED BY <2>3, <2>5, <4>1
    <3> QED BY <3>1, <3>2
  <2>7. e = c
    <3> DEFINE D == 1..(Count + 1)
    <3>1. c \in [D -> Half] /\ e \in [D -> Half] /\ \A k \in D : e[k] = c[k]
      BY <2>1, <2>5, <2>6
    <3> HIDE DEF D
    <3> QED BY <3>1
  <2> QED BY <2>3, <2>4, <2>7 DEF e
<1>7. wA' \in Half /\ wPlain' \in Seq(Half) /\ Len(wPlain') = Count' /\ Unwrapping' = wCipher'
  BY <1>1, <1>6 DEF Unwrapping
<1>8. WrapTypes'
  BY <1>1, <1>2, <1>7 DEF WrapTypes
<1>9. WrapWay'
  BY <1>1, <1>2, <1>7 DEF WrapInv, WrapWay
<1> QED BY <1>8, <1>9 DEF WrapInv

\* the loop begins at the last step,
LEMMA UnwrapInitStep ==
    ASSUME WrapInputs, WrapInv, Wrap!UnwrapInit PROVE WrapInv'
<1>1. /\ wKey' = wKey /\ Count' = Count /\ WrapStart' = WrapStart /\ wPc' = "unwrap" /\ wJ' = 5
      /\ wCipher' = wCipher /\ wWrapped' = wWrapped /\ wPc = "unwrap_init"
      /\ wA' = wA /\ wPlain' = wPlain /\ Unwrapping' = Unwrapping /\ wI' = Count
  BY DEF Wrap!UnwrapInit, Count, WrapStart, Unwrapping, Wrap!n
<1>2. /\ wKey \in SecretKeys /\ Unwrapping = wCipher /\ wWrapped # Wrap!Nothing
      /\ wA \in Half /\ wPlain \in Seq(Half) /\ Len(wPlain) = Count
  BY <1>1 DEF WrapInv, WrapTypes, WrapWay
<1>3. Count \in Nat \ {0} /\ Len(wKey) = Count
  BY <1>2, KeyIs
<1>4. wCipher \in Wrapped(Count)
  BY <1>2, WholeIs DEF Unwrapping, Wrapped
<1>5. (Count * 5) + Count = 6 * Count /\ 6 * Count \in Nat
  BY <1>3
<1>6. Reaches(wKey, (Count * 5) + Count, 6 * Count, Unwrapping, wCipher)
  <2> DEFINE m == 6 * Count
  <2>1. m \in Nat /\ (Count * 5) + Count = m
    BY <1>5
  <2> HIDE DEF m
  <2>2. Reaches(wKey, m, m, wCipher, wCipher)
    BY <1>3, <1>4, <2>1, ReachesSelf
  <2> QED BY <1>2, <2>1, <2>2 DEF m
<1>7. WrapTypes'
  <2>1. wJ' \in -1..5 /\ wI' \in 1..Count /\ wJ' # -1
    BY <1>1, <1>3
  <2> QED BY <1>1, <1>2, <2>1 DEF WrapTypes
<1>8. WrapWay'
  BY <1>1, <1>6 DEF WrapInv, WrapWay
<1> QED BY <1>7, <1>8 DEF WrapInv

\* undoes one step a turn,
LEMMA UnwrapLoopStep ==
    ASSUME WrapInputs, WrapInv, Wrap!UnwrapStep PROVE WrapInv'
<1>1. /\ wKey' = wKey /\ Count' = Count /\ WrapStart' = WrapStart /\ wPc' = "unwrap"
      /\ wWrapped' = wWrapped /\ wPc = "unwrap" /\ wJ >= 0 /\ wCipher' = wCipher
  BY DEF Wrap!UnwrapStep, Count, WrapStart
<1>2. /\ wKey \in SecretKeys /\ wJ \in -1..5 /\ wI \in 1..Count
      /\ Reaches(wKey, (Count * wJ) + wI, 6 * Count, Unwrapping, wCipher)
      /\ wA \in Half /\ wPlain \in Seq(Half) /\ Len(wPlain) = Count /\ wWrapped # Wrap!Nothing
  BY <1>1 DEF WrapInv, WrapTypes, WrapWay
<1>3. Count \in Nat \ {0} /\ Len(wKey) = Count /\ Wrap!n = Count
  BY <1>2, KeyIs
<1>4. wJ \in 0..5
  BY <1>1, <1>2
<1> DEFINE t == (Count * wJ) + wI
           b == DecryptHalves(XorByte(wA, t % ByteVals), wPlain[wI])
<1>5. t \in 1..(6 * Count) /\ Count * wJ \in Int
  <2>1. t \in 1..(6 * Count)
    BY <1>2, <1>3, <1>4, PlaceOfCounter
  <2> QED BY <1>2, <1>3, <2>1
<1>6. wA' = b[1] /\ wPlain' = [wPlain EXCEPT ![wI] = b[2]]
  <2>1. Wrap!StepByte = t % ByteVals /\ Wrap!Place = wI
    BY <1>3 DEF Wrap!StepByte, Wrap!Place
  <2>2. Wrap!XorByte(wA, Wrap!StepByte) = XorByte(wA, t % ByteVals)
    BY <2>1, SameXor
  <2> HIDE DEF t
  <2> QED BY <2>1, <2>2 DEF Wrap!UnwrapStep
<1>7. /\ b[1] \in Half /\ [wPlain EXCEPT ![wI] = b[2]] \in Seq(Half)
      /\ Len([wPlain EXCEPT ![wI] = b[2]]) = Count
      /\ BackOf(Count, <<wA>> \o wPlain, t) = <<b[1]>> \o [wPlain EXCEPT ![wI] = b[2]]
  <2>1. 2 + ((t - 1) % Count) = wI + 1
    BY <1>2, <1>3, <1>4, PlaceOfCounter
  <2>2. t \in Nat \ {0} /\ wI \in Nat
    BY <1>2, <1>5
  <2> HIDE DEF t
  <2>3. wI = PlaceAt(Count, t)
    <3>1. (t - 1) % Count \in Int
      BY <1>3, <2>2
    <3> QED BY <2>1, <2>2, <3>1 DEF PlaceAt
  <2> HIDE DEF b
  <2>4. b = DecryptHalves(XorByte(wA, CounterByte(t)), wPlain[wI])
    BY DEF b, CounterByte
  <2>5. wI = PlaceAt(Len(wPlain), t) /\ Len(wPlain) \in Nat \ {0}
    BY <1>2, <1>3, <2>3
  <2>6. wA \in Half /\ wPlain \in Seq(Half) /\ t \in Nat \ {0}
    BY <1>2, <2>2
  <2>7. BackOf(Len(wPlain), Ahead(wA, wPlain), t) = Ahead(b[1], Put(wPlain, wI, b[2]))
    BY <2>4, <2>5, <2>6, UnwrapStepIs
  <2>8. b \in Half \X Half /\ Put(wPlain, wI, b[2]) \in Seq(Half) /\ wI \in 1..Len(wPlain)
    BY <2>4, <2>5, <2>6, UnwrapStepTypes
  <2>9. Len(Put(wPlain, wI, b[2])) = Len(wPlain)
    BY <2>6, <2>8 DEF Put
  <2> QED BY <1>2, <2>7, <2>8, <2>9 DEF Put, Ahead
<1>8. Reaches(wKey, t - 1, 6 * Count, BackOf(Count, Unwrapping, t), wCipher)
  <2> DEFINE m == 6 * Count
  <2>1. m \in Nat /\ t \in Nat \ {0} /\ t <= m
    BY <1>3, <1>5
  <2> HIDE DEF t, m
  <2>2. Reaches(wKey, t, m, Unwrapping, wCipher)
    BY <1>2 DEF t, m
  <2>3. Reaches(wKey, t - 1, m, BackOf(Len(wKey), Unwrapping, t), wCipher)
    BY <1>3, <2>1, <2>2, ReachesBack
  <2> QED BY <1>3, <2>3 DEF m
<1>9. /\ wJ' \in -1..5 /\ wI' \in 1..Count /\ (wJ' = -1 => wI' = Count)
      /\ (Count * wJ') + wI' = t - 1
  <2>1. CASE wI > 1
    <3>1. wI' = wI - 1 /\ wJ' = wJ
      BY <2>1 DEF Wrap!UnwrapStep
    <3>2. wI - 1 \in 1..Count
      BY <1>2, <1>3, <2>1
    <3>3. (Count * wJ) + (wI - 1) = t - 1
      BY <1>2, <1>5
    <3> HIDE DEF t
    <3> QED BY <1>4, <3>1, <3>2, <3>3
  <2>2. CASE ~(wI > 1)
    <3>1. wI' = Count /\ wJ' = wJ - 1
      BY <1>3, <2>2 DEF Wrap!UnwrapStep
    <3>2. wI = 1
      BY <1>2, <1>3, <2>2
    <3>3. Count * (wJ - 1) = (Count * wJ) - Count
      BY <1>2, <1>3, <1>4, SixTimes
    <3>4. (Count * (wJ - 1)) + Count = t - 1
      BY <1>3, <1>5, <3>2, <3>3
    <3> HIDE DEF t
    <3>5. wJ - 1 \in -1..5 /\ Count \in 1..Count
      BY <1>3, <1>4
    <3> QED BY <3>1, <3>4, <3>5
  <2> QED BY <2>1, <2>2
<1> HIDE DEF t, b
<1>10. Unwrapping' = BackOf(Count, Unwrapping, t)
  BY <1>6, <1>7 DEF Unwrapping
<1>11. WrapTypes'
  BY <1>1, <1>2, <1>6, <1>7, <1>9 DEF WrapTypes
<1>12. WrapWay'
  BY <1>1, <1>8, <1>9, <1>10 DEF WrapInv, WrapWay
<1> QED BY <1>11, <1>12 DEF WrapInv

\* and ends before the first.
LEMMA UnwrapReturnStep ==
    ASSUME WrapInputs, WrapInv, Wrap!UnwrapReturn PROVE WrapInv'
<1>1. /\ wKey' = wKey /\ Count' = Count /\ WrapStart' = WrapStart /\ wPc' = "unwrapped"
      /\ wWrapped' = wWrapped /\ wPc = "unwrap" /\ wJ < 0 /\ wCipher' = wCipher
      /\ wA' = wA /\ wPlain' = wPlain /\ Unwrapping' = Unwrapping
      /\ wRet' = IF wA = Wrap!Iv THEN 0 ELSE -1
  BY DEF Wrap!UnwrapReturn, Count, WrapStart, Unwrapping, Wrap!Verified
<1>2. /\ wKey \in SecretKeys /\ wJ \in -1..5 /\ (wJ = -1 => wI = Count)
      /\ Reaches(wKey, (Count * wJ) + wI, 6 * Count, Unwrapping, wCipher)
      /\ wA \in Half /\ wPlain \in Seq(Half) /\ Len(wPlain) = Count /\ wWrapped # Wrap!Nothing
  BY <1>1 DEF WrapInv, WrapTypes, WrapWay
<1>3. Count \in Nat \ {0}
  BY <1>2, KeyIs
<1>4. wJ = -1 /\ wI = Count
  BY <1>1, <1>2
<1>5. (Count * (-1)) + Count = 0
  BY <1>3
<1>6. Reaches(wKey, 0, 6 * Count, Unwrapping, wCipher)
  BY <1>2, <1>4, <1>5
<1>7. WrapTypes'
  BY <1>1, <1>2 DEF WrapTypes
<1>8. WrapWay'
  BY <1>1, <1>2, <1>6 DEF WrapInv, WrapWay
<1> QED BY <1>7, <1>8 DEF WrapInv

\* Every step keeps it.
LEMMA WrapStays ==
    ASSUME WrapInputs, WrapInv, [Wrap!Next]_(Wrap!vars) PROVE WrapInv'
<1>1. CASE Wrap!Wrap \/ Wrap!InitFails
  BY <1>1, WrapCallStep
<1>2. CASE Wrap!Unwrap
  BY <1>2, UnwrapCallStep
<1>3. CASE Wrap!WrapInit
  BY <1>3, WrapInitStep
<1>4. CASE Wrap!WrapStep
  BY <1>4, WrapLoopStep
<1>5. CASE Wrap!WrapReturn
  BY <1>5, WrapReturnStep
<1>6. CASE Wrap!UnwrapInit
  BY <1>6, UnwrapInitStep
<1>7. CASE Wrap!UnwrapStep
  BY <1>7, UnwrapLoopStep
<1>8. CASE Wrap!UnwrapReturn
  BY <1>8, UnwrapReturnStep
<1>9. CASE UNCHANGED Wrap!vars
  BY <1>9 DEF Wrap!vars, WrapInv, WrapTypes, WrapWay, WrapStart, Count, Unwrapping
<1> QED BY <1>1, <1>2, <1>3, <1>4, <1>5, <1>6, <1>7, <1>8, <1>9 DEF Wrap!Next

-----------------------------------------------------------------------------
\* The way from the key to its end is the definition.
LEMMA StandardSoFar ==
    ASSUME WrapInputs, WrapInv PROVE Wrap!WrapIsStandard
<1>1. SUFFICES ASSUME wWrapped # Wrap!Nothing, 6 * Count < ByteVals
               PROVE  wWrapped = Wrap!Wrapping(wKey, 256)
  BY KeyIs DEF Wrap!WrapIsStandard, WrapInv, WrapTypes
<1>2. Reaches(wKey, 0, 6 * Len(wKey), <<Wrap!Iv>> \o wKey, wWrapped)
  BY <1>1 DEF WrapInv, WrapWay, WrapStart, Count
<1>3. Len(wKey) \in Nat \ {0} /\ Count = Len(wKey)
  BY KeyIs DEF WrapInv, WrapTypes
<1>4. ASSUME NEW k \in 1..(6 * Len(wKey)) PROVE k % 256 = k % ByteVals
  <2>1. ByteVals \in 2..256 /\ k \in Nat /\ k < ByteVals
    BY <1>1, <1>3 DEF WrapInputs
  <2>2. k % ByteVals = k
    BY <2>1
  <2>3. k % 256 = k
    BY <2>1
  <2> QED BY <2>2, <2>3
<1> QED BY <1>2, <1>3, <1>4, WrappingReaches

\* The way back from what was given is that of one key, and no other key has it.
LEMMA AcceptedSoFar ==
    ASSUME WrapInputs, WrapInv PROVE Wrap!AcceptsWrapped /\ Wrap!RoundTrip
<1>1. SUFFICES ASSUME wPc = "unwrapped" PROVE Wrap!AcceptsWrapped /\ Wrap!RoundTrip
  BY DEF Wrap!AcceptsWrapped, Wrap!RoundTrip
<1>2. /\ Reaches(wKey, 0, 6 * Count, Unwrapping, wCipher) /\ wKey \in SecretKeys
      /\ wRet = IF wA = Wrap!Iv THEN 0 ELSE -1
      /\ wWrapped # Wrap!Nothing /\ wA \in Half /\ wPlain \in Seq(Half) /\ Len(wPlain) = Count
  BY <1>1 DEF WrapInv, WrapTypes, WrapWay
<1>3. Count \in Nat \ {0} /\ Len(wKey) = Count /\ wKey \in Seq(Half) /\ Wrap!Iv \in Half
  BY <1>2, KeyIs DEF WrapInputs
<1>4. wRet = 0 <=> wA = Wrap!Iv
  BY <1>2
<1> DEFINE m == 6 * Count
           b == <<Wrap!Iv>> \o wPlain
<1>5. m \in Nat /\ m = 6 * Len(wKey) /\ m = 6 * Len(wPlain)
  BY <1>2, <1>3
<1>6. b \in Wrapped(Count)
  BY <1>2, <1>3, WholeIs DEF Wrapped
<1>7. b = Unwrapping <=> wA = Wrap!Iv
  <2>1. b[1] = Wrap!Iv
    BY <1>2, <1>3, WholeIs
  <2>2. Unwrapping[1] = wA
    BY <1>2, WholeIs DEF Unwrapping
  <2>3. wA = Wrap!Iv => b = Unwrapping
    BY DEF Unwrapping
  <2> HIDE DEF b
  <2> QED BY <2>1, <2>2, <2>3
<1>8. wRet = 0 <=> Wrap!Wrapping(wPlain, ByteVals) = wCipher
  <2> HIDE DEF m
  <2>1. PICK d : Reaches(wKey, 0, m, b, d)
    <3> HIDE DEF b
    <3> QED BY <1>3, <1>5, <1>6, ReachesSome
  <2>2. Reaches(wPlain, 0, m, b, d)
    BY <1>2, <1>3, <2>1, ReachesSame
  <2>3. Wrap!Wrapping(wPlain, ByteVals) = d
    BY <1>2, <1>3, <1>5, <2>2, WrappingReaches
  <2>4. Reaches(wKey, 0, m, Unwrapping, wCipher)
    BY <1>2 DEF m
  <2> HIDE DEF b
  <2>5. d = wCipher => b = Unwrapping
    BY <1>3, <1>5, <2>1, <2>4, ReachesOne
  <2>6. b = Unwrapping => d = wCipher
    <3>1. PICK f : WrapPath(f, wKey, 0, m) /\ f[0] = b /\ f[m] = d
      BY <2>1 DEF Reaches
    <3>2. PICK h : WrapPath(h, wKey, 0, m) /\ h[0] = Unwrapping /\ h[m] = wCipher
      BY <2>4 DEF Reaches
    <3> QED BY <1>5, <3>1, <3>2, SameStart
  <2> QED BY <1>4, <1>7, <2>3, <2>5, <2>6
<1>9. ASSUME wCipher = wWrapped PROVE wPlain = wKey /\ wRet = 0
  <2>1. Reaches(wKey, 0, m, WrapStart, wCipher)
    BY <1>2, <1>9 DEF WrapInv, WrapWay
  <2>2. Reaches(wKey, 0, m, Unwrapping, wCipher)
    BY <1>2
  <2> HIDE DEF m
  <2>3. WrapStart = Unwrapping
    BY <1>3, <1>5, <2>1, <2>2, ReachesOne
  <2>4. /\ WrapStart[1] = Wrap!Iv /\ \A k \in 1..Count : WrapStart[k + 1] = wKey[k]
        /\ Unwrapping[1] = wA /\ \A k \in 1..Count : Unwrapping[k + 1] = wPlain[k]
    BY <1>2, <1>3, WholeIs DEF WrapStart, Unwrapping
  <2>5. wA = Wrap!Iv /\ \A k \in 1..Count : wPlain[k] = wKey[k]
    BY <2>3, <2>4
  <2> QED BY <1>2, <1>3, <1>4, <2>5
<1> QED BY <1>1, <1>8, <1>9 DEF Wrap!AcceptsWrapped, Wrap!RoundTrip

-----------------------------------------------------------------------------
\* CBC, whose block cipher is any permutation of a set of blocks.
Blocks == DOMAIN Permuted

\* Blocks are bytes that can be added; the buffers and the ivs are made of them.
CbcInputs ==
    /\ Cbc!IsCipher
    /\ Blocks \subseteq Byte
    /\ \A x, y \in Blocks : XorByte(x, y) \in Blocks
    /\ Ivs \subseteq Blocks
    /\ Datas \subseteq Seq(Blocks)

\* Its blocks are added like bytes of the cipher.
LEMMA CbcXor ==
    \A b, c : Cbc!XorByte(b, c) = XorByte(b, c)
BY DEF Cbc!XorByte, XorByte, Cbc!XorNibble, XorNibble

\* The hypotheses, in these words,
LEMMA CbcInputsHold ==
    ASSUME Cbc!Inputs PROVE CbcInputs
BY CbcXor DEF Cbc!Inputs, CbcInputs, Byte, Cbc!Byte, Blocks

\* and what they say of single blocks.
LEMMA CbcFacts ==
    ASSUME CbcInputs
    PROVE  /\ \A x \in Blocks : /\ Permuted[x] \in Blocks /\ Restored[x] \in Blocks
                                /\ Restored[Permuted[x]] = x /\ Permuted[Restored[x]] = x
           /\ \A x, y \in Blocks : /\ XorByte(x, y) \in Blocks /\ XorByte(x, y) = XorByte(y, x)
                                   /\ XorByte(XorByte(x, y), y) = x
<1>1. \A x \in Blocks : /\ Permuted[x] \in Blocks /\ Restored[x] \in Blocks
                        /\ Restored[Permuted[x]] = x /\ Permuted[Restored[x]] = x
  BY DEF CbcInputs, Cbc!IsCipher, Blocks
<1>2. ASSUME NEW x \in Blocks, NEW y \in Blocks
      PROVE  /\ XorByte(x, y) \in Blocks /\ XorByte(x, y) = XorByte(y, x)
             /\ XorByte(XorByte(x, y), y) = x
  <2>1. x \in Byte /\ y \in Byte /\ XorByte(x, y) \in Blocks
    BY DEF CbcInputs
  <2> QED BY <2>1, XorCommutes, AddTwiceByte
<1> QED BY <1>1, <1>2

\* The types.
CbcTypes ==
    /\ bPc \in {"idle", "init", "encrypt", "decrypt", "single"}
    /\ bOp \in {"none", "encrypt", "decrypt", "single"}
    /\ bIv \in Blocks /\ bCbc \in Blocks
    /\ bGiven \in Seq(Blocks) /\ bData \in Seq(Blocks) /\ Len(bGiven) = Len(bData)
    /\ bI \in 0..Len(bData)

\* Which function runs, and what its next block is chained to.
CbcControl ==
    /\ bOp = "none" => bI = 0 /\ bPc = "idle"
    /\ bPc = "init" => bI = 0
    /\ bPc \in {"encrypt", "decrypt", "single"} => bOp = bPc
    /\ bPc = "encrypt" => bCbc = IF bI = 0 THEN bIv ELSE bData[bI]
    /\ bPc = "decrypt" => bCbc = IF bI = 0 THEN bIv ELSE bGiven[bI]

\* What the property says of block p when n blocks are finished.
BlockSoFar(f, x, given, data, p, n) ==
    IF p > n THEN data[p] = given[p]
    ELSE CASE f = "encrypt" ->
                Restored[data[p]] = XorByte(given[p], IF p = 1 THEN x ELSE data[p - 1])
           [] f = "decrypt" ->
                given[p] = Permuted[XorByte(data[p], IF p = 1 THEN x ELSE given[p - 1])]
           [] f = "single" -> Restored[data[p]] = given[p]

\* The inductive invariant: the property needs to know what the next block is chained to.
CbcInv == CbcTypes /\ CbcControl /\ Cbc!CbcSoFar

\* The property, block by block, now
LEMMA CbcSoFarIs ==
    Cbc!CbcSoFar <=> \A p \in DOMAIN bData : BlockSoFar(bOp, bIv, bGiven, bData, p, bI)
BY CbcXor DEF Cbc!CbcSoFar, Cbc!Before, BlockSoFar

\* and after a step.
LEMMA CbcSoFarNext ==
    Cbc!CbcSoFar' <=> \A p \in DOMAIN bData' : BlockSoFar(bOp', bIv', bGiven', bData', p, bI')
BY CbcXor DEF Cbc!CbcSoFar, Cbc!Before, BlockSoFar

\* It holds before the first call,
LEMMA CbcStarts ==
    ASSUME CbcInputs, Cbc!Init PROVE CbcInv
<1>1. bIv \in Blocks /\ bData \in Seq(Blocks) /\ bGiven = bData /\ bCbc = bIv /\ bI = 0
      /\ bPc = "idle" /\ bOp = "none"
  BY DEF Cbc!Init, CbcInputs
<1>2. CbcTypes /\ CbcControl
  BY <1>1 DEF CbcTypes, CbcControl
<1>3. \A p \in DOMAIN bData : BlockSoFar(bOp, bIv, bGiven, bData, p, bI)
  <2>1. \A p \in DOMAIN bData : p > 0
    BY <1>1
  <2> QED BY <1>1, <2>1 DEF BlockSoFar
<1> QED BY <1>2, <1>3, CbcSoFarIs DEF CbcInv

\* when a call begins,
LEMMA CbcCallStep ==
    ASSUME CbcInputs, CbcInv, NEW f \in {"encrypt", "decrypt", "single"}, Cbc!Call(f)
    PROVE  CbcInv'
<1>1. bIv' = bIv /\ bData' = bData /\ bGiven' = bData /\ bCbc' = bCbc /\ bI' = 0
      /\ bPc' = "init" /\ bOp' = f
  BY DEF Cbc!Call
<1>2. CbcTypes' /\ CbcControl'
  BY <1>1 DEF CbcInv, CbcTypes, CbcControl
<1>3. \A p \in DOMAIN bData' : BlockSoFar(bOp', bIv', bGiven', bData', p, bI')
  <2>1. \A p \in DOMAIN bData : p > 0
    BY DEF CbcInv, CbcTypes
  <2> QED BY <1>1, <2>1 DEF BlockSoFar
<1>4. Cbc!CbcSoFar'
  BY <1>3, CbcSoFarNext
<1> QED BY <1>2, <1>4 DEF CbcInv

\* when its context is there or is not, and when it returns;
LEMMA CbcOtherStep ==
    ASSUME CbcInputs, CbcInv, Cbc!InitFails \/ Cbc!InitSucceeds \/ Cbc!Return PROVE CbcInv'
<1>1. bIv' = bIv /\ bData' = bData /\ bGiven' = bGiven /\ bI' = bI /\ bOp' = bOp
  BY DEF Cbc!InitFails, Cbc!InitSucceeds, Cbc!Return
<1>2. /\ bCbc' \in {bCbc, bIv}
      /\ \/ bPc' = "idle" /\ bPc # "idle"
         \/ bPc = "init" /\ bPc' = bOp /\ bCbc' = bIv
  BY DEF Cbc!InitFails, Cbc!InitSucceeds, Cbc!Return
<1>3. CbcTypes' /\ CbcControl'
  BY <1>1, <1>2 DEF CbcInv, CbcTypes, CbcControl
<1>4. Cbc!CbcSoFar'
  BY <1>1 DEF CbcInv, Cbc!CbcSoFar, Cbc!Before
<1> QED BY <1>3, <1>4 DEF CbcInv

\* and a block that is finished is what it should be, and leaves the others alone.
LEMMA CbcBlockStep ==
    ASSUME CbcInputs, CbcInv, Cbc!EncryptBlock \/ Cbc!DecryptBlock \/ Cbc!SingleBlock
    PROVE  CbcInv'
<1> DEFINE q == bI + 1
<1>1. /\ bIv' = bIv /\ bGiven' = bGiven /\ bOp' = bOp /\ bPc' = bPc /\ bI' = q
  BY DEF Cbc!EncryptBlock, Cbc!DecryptBlock, Cbc!SingleBlock
<1>2. /\ bIv \in Blocks /\ bCbc \in Blocks /\ bGiven \in Seq(Blocks) /\ bData \in Seq(Blocks)
      /\ Len(bGiven) = Len(bData) /\ bI \in 0..Len(bData) /\ Len(bData) \in Nat
      /\ bPc \in {"encrypt", "decrypt", "single"} /\ bOp = bPc
      /\ bPc = "encrypt" => bCbc = IF q = 1 THEN bIv ELSE bData[q - 1]
      /\ bPc = "decrypt" => bCbc = IF q = 1 THEN bIv ELSE bGiven[q - 1]
  BY DEF CbcInv, CbcTypes, CbcControl, Cbc!EncryptBlock, Cbc!DecryptBlock, Cbc!SingleBlock
<1>3. q \in 1..Len(bData) /\ bI = q - 1 /\ (bPc = "single" => q = 1)
  <2>1. CASE Cbc!EncryptBlock \/ Cbc!DecryptBlock
    BY <1>2, <2>1 DEF Cbc!EncryptBlock, Cbc!DecryptBlock
  <2>2. CASE Cbc!SingleBlock
    <3>1. bI = 0 /\ Len(bData) # 0
      BY <1>2, <2>2 DEF Cbc!SingleBlock
    <3> QED BY <1>2, <3>1
  <2> QED BY <2>1, <2>2
<1> HIDE DEF q
<1>4. \A p \in DOMAIN bData : BlockSoFar(bOp, bIv, bGiven, bData, p, bI)
  BY CbcSoFarIs DEF CbcInv
<1>5. bData[q] = bGiven[q] /\ bData[q] \in Blocks /\ DOMAIN bData = 1..Len(bData)
  <2>1. DOMAIN bData = 1..Len(bData)
    BY <1>2
  <2>2. q \in DOMAIN bData /\ q > bI
    BY <1>2, <1>3, <2>1
  <2>3. bData[q] = bGiven[q]
    BY <1>4, <2>2, Zenon DEF BlockSoFar
  <2>4. bData[q] \in Blocks
    BY <1>2, <1>3
  <2> QED BY <2>1, <2>3, <2>4
\* The block that is finished.
<1>6. PICK v : /\ v \in Blocks /\ bData' = [bData EXCEPT ![q] = v]
               /\ bPc = "encrypt" => v = Permuted[XorByte(bCbc, bGiven[q])] /\ bCbc' = v
               /\ bPc = "decrypt" => v = XorByte(Restored[bGiven[q]], bCbc) /\ bCbc' = bGiven[q]
               /\ bPc = "single" => v = Permuted[bGiven[q]] /\ bCbc' = bCbc
  <2>1. CASE Cbc!EncryptBlock
    <3> DEFINE v == Permuted[XorByte(bCbc, bData[q])]
    <3>1. bPc = "encrypt" /\ bCbc' = v /\ bData' = [bData EXCEPT ![q] = v]
      BY <2>1, CbcXor DEF Cbc!EncryptBlock, q
    <3>2. v \in Blocks
      BY <1>2, <1>5, CbcFacts
    <3>3. v = Permuted[XorByte(bCbc, bGiven[q])]
      BY <1>5
    <3> HIDE DEF v
    <3> QED BY <3>1, <3>2, <3>3
  <2>2. CASE Cbc!DecryptBlock
    <3> DEFINE v == XorByte(Restored[bData[q]], bCbc)
    <3>1. bPc = "decrypt" /\ bCbc' = bData[q] /\ bData' = [bData EXCEPT ![q] = v]
      BY <2>2, CbcXor DEF Cbc!DecryptBlock, Cbc!Chained, q
    <3>2. v \in Blocks
      BY <1>2, <1>5, CbcFacts
    <3>3. v = XorByte(Restored[bGiven[q]], bCbc) /\ bCbc' = bGiven[q]
      BY <1>5, <3>1
    <3> HIDE DEF v
    <3> QED BY <3>1, <3>2, <3>3
  <2>3. CASE Cbc!SingleBlock
    <3> DEFINE v == Permuted[bData[q]]
    <3>0. q = 1
      BY <1>3, <2>3 DEF Cbc!SingleBlock
    <3>1. bPc = "single" /\ bCbc' = bCbc /\ bData' = [bData EXCEPT ![q] = v]
      BY <2>3, <3>0 DEF Cbc!SingleBlock
    <3>2. v \in Blocks
      BY <1>2, <1>5, CbcFacts
    <3>3. v = Permuted[bGiven[q]]
      BY <1>5
    <3> HIDE DEF v
    <3> QED BY <3>1, <3>2, <3>3
  <2> QED BY <2>1, <2>2, <2>3
<1>7. /\ bData' \in Seq(Blocks) /\ Len(bData') = Len(bData) /\ DOMAIN bData' = DOMAIN bData
      /\ \A p \in DOMAIN bData : bData'[p] = IF p = q THEN v ELSE bData[p]
  BY <1>2, <1>3, <1>6
<1>8. bCbc' \in Blocks
  BY <1>2, <1>5, <1>6
<1>9. CbcTypes'
  BY <1>1, <1>2, <1>3, <1>7, <1>8 DEF CbcTypes
<1>10. CbcControl'
  <2>1. bI' # 0 /\ bI' = q /\ bOp' = bPc' /\ bPc' = bPc /\ q \in DOMAIN bData
    BY <1>1, <1>2, <1>3, <1>5
  <2>2. bData'[bI'] = v /\ bGiven'[bI'] = bGiven[q]
    BY <1>1, <1>7, <2>1
  <2> QED BY <1>2, <1>6, <2>1, <2>2 DEF CbcControl
<1>11. ASSUME NEW p \in DOMAIN bData' PROVE BlockSoFar(bOp', bIv', bGiven', bData', p, bI')
  <2>1. /\ p \in DOMAIN bData /\ p \in 1..Len(bData) /\ bOp' = bPc /\ bIv' = bIv
        /\ bGiven' = bGiven /\ bI' = q /\ bOp = bPc
    BY <1>1, <1>2, <1>5, <1>7
  <2>2. p - 1 \in DOMAIN bData \/ p = 1
    BY <1>5, <2>1
  <2>3. BlockSoFar(bOp, bIv, bGiven, bData, p, bI)
    BY <1>4, <2>1
  <2>4. CASE p > q
    <3>1. p > bI /\ p # q
      BY <1>2, <1>3, <2>1, <2>4
    <3>2. bData'[p] = bGiven[p]
      BY <1>7, <2>1, <2>3, <3>1 DEF BlockSoFar
    <3> QED BY <2>1, <2>4, <3>2 DEF BlockSoFar
  <2>5. CASE p = q
    <3>1. bData'[p] = v /\ ~(p > q) /\ (p # 1 => bData'[p - 1] = bData[p - 1])
      BY <1>3, <1>5, <1>7, <2>1, <2>2, <2>5
    <3>2. bGiven[q] \in Blocks
      BY <1>5
    <3>3. CASE bPc = "encrypt"
      <4>1. bCbc = IF p = 1 THEN bIv ELSE bData'[p - 1]
        BY <1>2, <2>5, <3>1, <3>3
      <4>2. Restored[v] = XorByte(bGiven[q], bCbc)
        BY <1>2, <1>6, <3>2, <3>3, CbcFacts
      <4> QED BY <2>1, <2>5, <3>1, <3>3, <4>1, <4>2 DEF BlockSoFar
    <3>4. CASE bPc = "decrypt"
      <4>1. bCbc = IF p = 1 THEN bIv ELSE bGiven[p - 1]
        BY <1>2, <2>5, <3>4
      <4>2. bGiven[q] = Permuted[XorByte(v, bCbc)]
        BY <1>2, <1>6, <3>2, <3>4, CbcFacts
      <4> QED BY <2>1, <2>5, <3>1, <3>4, <4>1, <4>2 DEF BlockSoFar
    <3>5. CASE bPc = "single"
      <4>1. Restored[v] = bGiven[q]
        BY <1>6, <3>2, <3>5, CbcFacts
      <4> QED BY <2>1, <2>5, <3>1, <3>5, <4>1 DEF BlockSoFar
    <3> QED BY <1>2, <3>3, <3>4, <3>5
  <2>6. CASE p < q
    <3>1. /\ ~(p > bI) /\ ~(p > q) /\ p # q /\ p - 1 # q
      BY <1>2, <1>3, <2>1, <2>6
    <3>2. bData'[p] = bData[p] /\ (p # 1 => bData'[p - 1] = bData[p - 1])
      BY <1>7, <2>1, <2>2, <3>1
    <3> QED BY <2>1, <2>3, <3>1, <3>2 DEF BlockSoFar
  <2> QED BY <1>3, <2>1, <2>4, <2>5, <2>6
<1>12. Cbc!CbcSoFar'
  BY <1>11, CbcSoFarNext
<1> QED BY <1>9, <1>10, <1>12 DEF CbcInv

\* Every step keeps it.
LEMMA CbcStays ==
    ASSUME CbcInputs, CbcInv, [Cbc!Next]_(Cbc!vars) PROVE CbcInv'
<1>1. CASE \E f \in {"encrypt", "decrypt"} : Cbc!Call(f)
  BY <1>1, CbcCallStep
<1>2. CASE bData # <<>> /\ Cbc!Call("single")
  BY <1>2, CbcCallStep
<1>3. CASE Cbc!InitFails \/ Cbc!InitSucceeds \/ Cbc!Return
  BY <1>3, CbcOtherStep
<1>4. CASE Cbc!EncryptBlock \/ Cbc!DecryptBlock \/ Cbc!SingleBlock
  BY <1>4, CbcBlockStep
<1>5. CASE UNCHANGED Cbc!vars
  BY <1>5 DEF Cbc!vars, CbcInv, CbcTypes, CbcControl, Cbc!CbcSoFar, Cbc!Before
<1> QED BY <1>1, <1>2, <1>3, <1>4, <1>5 DEF Cbc!Next

-----------------------------------------------------------------------------
\* Counter mode.  Its counter is a number in the base CounterVals.
CtrBytes == 0..(CounterVals - 1)
CtrBlocks == [1..16 -> CtrBytes]

\* Quotient and rest are the only ones,
LEMMA DivisionUnique ==
    ASSUME NEW b \in Nat \ {0}, NEW q \in Nat, NEW r0 \in 0..(b - 1)
    PROVE  ((b * q) + r0) \div b = q /\ ((b * q) + r0) % b = r0
<1> DEFINE m == b * q
           e == m + r0
           u == e \div b
           d == e % b
<1>1. m \in Nat
  OBVIOUS
<1>2. e \in Nat
  <2> HIDE DEF m
  <2> QED BY <1>1
<1>3. u \in Int /\ d \in 0..(b - 1) /\ e = (b * u) + d
  <2> HIDE DEF e
  <2> QED BY <1>2
<1> HIDE DEF u, d
<1>4. u = q
  <2>1. u <= q
    <3>1. SUFFICES ASSUME u >= q + 1 PROVE FALSE
      BY <1>3
    <3>2. b * u >= b * (q + 1)
      BY <1>3, <3>1
    <3>3. b * (q + 1) = m + b
      OBVIOUS
    <3>4. b * u \in Int
      BY <1>3
    <3> HIDE DEF m
    <3> QED BY <1>1, <1>3, <3>2, <3>3, <3>4
  <2>2. q <= u
    <3>1. SUFFICES ASSUME q >= u + 1 PROVE FALSE
      BY <1>3
    <3>2. b * q >= b * (u + 1)
      BY <1>3, <3>1
    <3>3. b * (u + 1) = (b * u) + b
      BY <1>3
    <3>4. b * u \in Int
      BY <1>3
    <3>5. m >= (b * u) + b
      BY <3>2, <3>3
    <3> HIDE DEF m
    <3> QED BY <1>1, <1>3, <3>4, <3>5
  <2> QED BY <1>3, <2>1, <2>2
<1>5. d = r0
  <2>1. e = (b * q) + d
    BY <1>3, <1>4
  <2>2. m + r0 = m + d
    BY <2>1
  <2> HIDE DEF m
  <2> QED BY <1>1, <1>3, <2>2
<1> QED BY <1>4, <1>5 DEF u, d

\* and they are numbers.
LEMMA DivisionIs ==
    ASSUME NEW b \in Nat \ {0}, NEW x \in Nat
    PROVE  x \div b \in Nat /\ x % b \in 0..(b - 1) /\ x = (b * (x \div b)) + (x % b)
<1> DEFINE u == x \div b
           d == x % b
<1>1. u \in Int /\ d \in 0..(b - 1) /\ x = (b * u) + d
  OBVIOUS
<1> HIDE DEF u, d
<1>2. u >= 0
  <2>1. SUFFICES ASSUME u <= -1 PROVE FALSE
    BY <1>1
  <2>2. b * u <= b * (-1)
    BY <1>1, <2>1
  <2>3. b * (-1) = -b /\ b * u \in Int
    BY <1>1
  <2> QED BY <1>1, <2>2, <2>3
<1> QED BY <1>1, <1>2 DEF u, d

\* One more: the remainder goes round, and only then is the quotient one more.
LEMMA DivisionOnce ==
    ASSUME NEW b \in Nat \ {0}, NEW x \in Nat
    PROVE  /\ (x + 1) % b = ((x % b) + 1) % b
           /\ (x + 1) \div b = (x \div b) + (IF ((x % b) + 1) % b = 0 THEN 1 ELSE 0)
<1> DEFINE u == x \div b
           d == x % b
<1>1. u \in Nat /\ d \in 0..(b - 1) /\ x = (b * u) + d
  BY DivisionIs
<1> HIDE DEF u, d
<1>2. CASE d + 1 < b
  <2>1. d + 1 \in 0..(b - 1) /\ x + 1 = (b * u) + (d + 1)
    <3>1. b * u \in Nat
      BY <1>1
    <3> QED BY <1>1, <1>2, <3>1
  <2>2. (x + 1) % b = d + 1 /\ (x + 1) \div b = u
    BY <1>1, <2>1, DivisionUnique
  <2>3. (d + 1) % b = d + 1
    BY <1>1, <2>1
  <2>4. d + 1 # 0
    BY <1>1
  <2> QED BY <1>1, <2>2, <2>3, <2>4 DEF u, d
<1>3. CASE d + 1 = b
  <2>1. x + 1 = (b * (u + 1)) + 0
    <3>1. b * u \in Nat /\ b * (u + 1) = (b * u) + b
      BY <1>1
    <3> QED BY <1>1, <1>3, <3>1
  <2>2. 0 \in 0..(b - 1) /\ u + 1 \in Nat
    BY <1>1
  <2>3. (x + 1) % b = 0 /\ (x + 1) \div b = u + 1
    BY SMTT(30), <2>1, <2>2, DivisionUnique
  <2>4. (d + 1) % b = 0
    BY <1>3
  <2> QED BY <1>1, <2>3, <2>4 DEF u, d
<1> QED BY <1>1, <1>2, <1>3

-----------------------------------------------------------------------------
\* Values that are computed one from the other.
Iterates(f, g, n, x) ==
    f \in [0..n -> Nat] /\ f[0] = x /\ \A k \in 1..n : f[k] = g[<<k, f[k - 1]>>]

RunsIn(f, g, n, V, x) ==
    f \in [0..n -> V] /\ f[0] = x /\ \A k \in 1..n : f[k] = g[<<k, f[k - 1]>>]

\* They exist.
LEMMA Repeated ==
    ASSUME NEW n, n \in Nat, NEW V, NEW g, g \in [(1..n) \X V -> V], NEW x, x \in V
    PROVE  \E f : RunsIn(f, g, n, V, x)
<1> DEFINE Has(m) == \E f \in [0..m -> V] : f[0] = x /\ \A k \in 1..m : f[k] = g[<<k, f[k - 1]>>]
           U == {m \in 0..n : ~Has(m)}
<1>1. SUFFICES ASSUME ~Has(n) PROVE FALSE
  BY DEF RunsIn
<1>2. Has(0)
  <2> DEFINE f == [k \in 0..0 |-> x]
  <2>1. f \in [0..0 -> V] /\ f[0] = x /\ \A k \in 1..0 : FALSE
    OBVIOUS
  <2> HIDE DEF f
  <2> QED BY <2>1
<1>3. ASSUME NEW m \in 0..(n - 1), Has(m) PROVE Has(m + 1)
  <2>1. PICK f \in [0..m -> V] : f[0] = x /\ \A k \in 1..m : f[k] = g[<<k, f[k - 1]>>]
    BY <1>3
  <2> DEFINE h == [k \in 0..(m + 1) |-> IF k = m + 1 THEN g[<<m + 1, f[m]>>] ELSE f[k]]
  <2>2. m \in Nat /\ m \in 0..m /\ m + 1 \in 1..n /\ m # m + 1 /\ 0 # m + 1 /\ (m + 1) - 1 = m
    BY <1>3
  <2>3. f[m] \in V /\ g[<<m + 1, f[m]>>] \in V
    BY <2>2
  <2>4. h \in [0..(m + 1) -> V]
    BY <2>2, <2>3
  <2>5. h[m + 1] = g[<<m + 1, f[m]>>] /\ \A k \in 0..m : h[k] = f[k]
    BY <2>2
  <2> HIDE DEF h
  <2>6. h[0] = x
    BY <2>1, <2>2, <2>5
  <2>7. ASSUME NEW k \in 1..(m + 1) PROVE h[k] = g[<<k, h[k - 1]>>]
    <3>1. CASE k = m + 1
      BY <2>2, <2>5, <3>1
    <3>2. CASE k \in 1..m
      <4>1. k \in 0..m /\ k - 1 \in 0..m
        BY <2>2, <3>2
      <4> QED BY <2>1, <2>5, <3>2, <4>1
    <3> QED BY <2>2, <3>1, <3>2
  <2> QED BY <2>4, <2>6, <2>7
<1> HIDE DEF Has
<1>4. U \subseteq Nat /\ U # {}
  BY <1>1
<1>5. PICK m \in U : \A k \in U : m <= k
  BY <1>4, LeastElement
<1>6. m \in 0..n /\ ~Has(m) /\ m # 0
  BY <1>2
<1>7. m - 1 \in 0..(n - 1) /\ m - 1 \in 0..n /\ ~(m <= m - 1) /\ (m - 1) + 1 = m
  BY <1>6
<1>8. Has(m - 1)
  BY <1>5, <1>7
<1> QED BY <1>3, <1>6, <1>7, <1>8

LEMMA Iterated ==
    ASSUME NEW n, n \in Nat, NEW g, g \in [(1..n) \X Nat -> Nat], NEW x, x \in Nat
    PROVE  \E f : Iterates(f, g, n, x)
<1>1. \E f : RunsIn(f, g, n, Nat, x)
  BY Repeated
<1> QED BY <1>1 DEF Iterates, RunsIn

\* The numbers the first bytes of c are, and the quotients whose rests are digits.
IsSum(h, c) ==
    /\ h \in [0..16 -> Nat] /\ h[0] = 0
    /\ \A k \in 1..16 : h[k] = (CounterVals * h[k - 1]) + c[k]
IsAbove(h, n) ==
    /\ h \in [0..15 -> Nat] /\ h[0] = n
    /\ \A k \in 1..15 : h[k] = h[k - 1] \div CounterVals
    /\ Ctr!Digits(n) = [p \in 1..16 |-> h[16 - p] % CounterVals]

\* The number a block is, step by step,
LEMMA NumberIs ==
    ASSUME Ctr!Inputs, NEW c \in CtrBlocks
    PROVE  \E h : IsSum(h, c) /\ Ctr!Number(c) = h[16]
<1>0. CounterVals \in Nat \ {0} /\ Ctr!Block = 16
  BY DEF Ctr!Inputs, Ctr!Block
<1> DEFINE g == [x \in (1..16) \X Nat |-> (CounterVals * x[2]) + c[x[1]]]
<1>1. g \in [(1..16) \X Nat -> Nat]
  <2>1. ASSUME NEW x \in (1..16) \X Nat PROVE (CounterVals * x[2]) + c[x[1]] \in Nat
    <3>1. x[2] \in Nat /\ x[1] \in 1..16
      OBVIOUS
    <3>2. c[x[1]] \in Nat
      BY <1>0, <3>1 DEF CtrBlocks, CtrBytes
    <3>3. CounterVals * x[2] \in Nat
      BY <1>0, <3>1
    <3> QED BY <3>2, <3>3
  <2> QED BY <2>1
<1>2. \A k \in 1..16, y \in Nat : g[<<k, y>>] = (CounterVals * y) + c[k]
  OBVIOUS
<1> HIDE DEF g
<1>3. PICK h : h \in [0..16 -> Nat] /\ h[0] = 0 /\ \A k \in 1..16 : h[k] = g[<<k, h[k - 1]>>]
  <2>1. 16 \in Nat /\ 0 \in Nat
    OBVIOUS
  <2>2. PICK h : Iterates(h, g, 16, 0)
    BY <1>1, <2>1, Iterated
  <2> QED BY <2>2 DEF Iterates
<1>4. \A k \in 1..16 : k - 1 \in 0..16 /\ h[k - 1] \in Nat
  BY <1>3
<1>5. \A k \in 1..16 : h[k] = (CounterVals * h[k - 1]) + c[k]
  BY <1>2, <1>3, <1>4
<1> DEFINE F(f) == [j0 \in 0..16 |-> IF j0 = 0 THEN 0 ELSE (CounterVals * f[j0 - 1]) + c[j0]]
           sum == CHOOSE f : f = F(f)
<1>6. h = F(h)
  <2> DEFINE D == 0..16
  <2>1. \A k \in D : h[k] = IF k = 0 THEN 0 ELSE (CounterVals * h[k - 1]) + c[k]
    BY <1>3, <1>5
  <2>2. h = [k \in D |-> h[k]]
    BY <1>3
  <2> HIDE DEF D
  <2>3. h = [k \in D |-> IF k = 0 THEN 0 ELSE (CounterVals * h[k - 1]) + c[k]]
    BY <2>1, <2>2
  <2> QED BY <2>3 DEF D
<1>7. sum = F(sum)
  BY <1>6
<1>8. Ctr!Number(c) = sum[16]
  BY <1>0 DEF Ctr!Number
<1> HIDE DEF sum
<1>9. sum[0] = 0 /\ \A k \in 1..16 : sum[k] = (CounterVals * sum[k - 1]) + c[k]
  BY <1>7
<1>10. sum[16] = h[16]
  <2> DEFINE U == {k \in 0..16 : sum[k] # h[k]}
  <2>1. SUFFICES ASSUME U # {} PROVE FALSE
    OBVIOUS
  <2>2. U \subseteq Nat
    OBVIOUS
  <2>3. PICK m \in U : \A k \in U : m <= k
    BY <2>1, <2>2, LeastElement
  <2>4. m \in 0..16 /\ sum[m] # h[m] /\ m # 0
    BY <1>3, <1>9
  <2>5. m - 1 \in 0..16 /\ ~(m <= m - 1) /\ m \in 1..16
    BY <2>4
  <2>6. sum[m - 1] = h[m - 1]
    BY <2>3, <2>5
  <2> QED BY <1>5, <1>9, <2>4, <2>5, <2>6
<1> QED BY <1>3, <1>5, <1>8, <1>10 DEF IsSum

\* and the digits of a number.
LEMMA DigitsAre ==
    ASSUME Ctr!Inputs, NEW n \in Nat
    PROVE  \E h : IsAbove(h, n)
<1>0. CounterVals \in Nat \ {0} /\ Ctr!Block = 16
  BY DEF Ctr!Inputs, Ctr!Block
<1> DEFINE g == [x \in (1..15) \X Nat |-> x[2] \div CounterVals]
<1>1. g \in [(1..15) \X Nat -> Nat]
  <2>1. ASSUME NEW x \in (1..15) \X Nat PROVE x[2] \div CounterVals \in Nat
    BY <1>0, DivisionIs
  <2> QED BY <2>1
<1>2. \A k \in 1..15, y \in Nat : g[<<k, y>>] = y \div CounterVals
  OBVIOUS
<1> HIDE DEF g
<1>3. PICK h : h \in [0..15 -> Nat] /\ h[0] = n /\ \A k \in 1..15 : h[k] = g[<<k, h[k - 1]>>]
  <2>1. 15 \in Nat /\ n \in Nat
    OBVIOUS
  <2>2. PICK h : Iterates(h, g, 15, n)
    BY <1>1, <2>1, Iterated
  <2> QED BY <2>2 DEF Iterates
<1>4. \A k \in 1..15 : k - 1 \in 0..15 /\ h[k - 1] \in Nat
  BY <1>3
<1>5. \A k \in 1..15 : h[k] = h[k - 1] \div CounterVals
  BY <1>2, <1>3, <1>4
<1> DEFINE F(f) == [k \in 0..15 |-> IF k = 0 THEN n ELSE f[k - 1] \div CounterVals]
           above == CHOOSE f : f = F(f)
<1>6. h = F(h)
  <2> DEFINE D == 0..15
  <2>1. \A k \in D : h[k] = IF k = 0 THEN n ELSE h[k - 1] \div CounterVals
    BY <1>3, <1>5
  <2>2. h = [k \in D |-> h[k]]
    BY <1>3
  <2> HIDE DEF D
  <2>3. h = [k \in D |-> IF k = 0 THEN n ELSE h[k - 1] \div CounterVals]
    BY <2>1, <2>2
  <2> QED BY <2>3 DEF D
<1>7. above = F(above)
  BY <1>6
<1>8. Ctr!Digits(n) = [p \in 1..16 |-> above[16 - p] % CounterVals]
  BY <1>0 DEF Ctr!Digits
<1> HIDE DEF above
<1>9. above[0] = n /\ \A k \in 1..15 : above[k] = above[k - 1] \div CounterVals
  BY <1>7
<1>10. \A k \in 0..15 : above[k] = h[k]
  <2> DEFINE U == {k \in 0..15 : above[k] # h[k]}
  <2>1. SUFFICES ASSUME U # {} PROVE FALSE
    OBVIOUS
  <2>2. U \subseteq Nat
    OBVIOUS
  <2>3. PICK m \in U : \A k \in U : m <= k
    BY <2>1, <2>2, LeastElement
  <2>4. m \in 0..15 /\ above[m] # h[m] /\ m # 0
    BY <1>3, <1>9
  <2>5. m - 1 \in 0..15 /\ ~(m <= m - 1) /\ m \in 1..15
    BY <2>4
  <2>6. above[m - 1] = h[m - 1]
    BY <2>3, <2>5
  <2> QED BY <1>5, <1>9, <2>4, <2>5, <2>6
<1>11. Ctr!Digits(n) = [p \in 1..16 |-> h[16 - p] % CounterVals]
  <2>1. \A p \in 1..16 : 16 - p \in 0..15
    OBVIOUS
  <2> QED BY <1>8, <1>10, <2>1
<1> QED BY <1>3, <1>5, <1>11 DEF IsAbove

-----------------------------------------------------------------------------
\* A nonce is the digits of the number it is.
LEMMA PlusNothing ==
    ASSUME Ctr!Inputs, NEW c \in CtrBlocks
    PROVE  Ctr!Plus(c, 0) = c
<1>0. CounterVals \in Nat \ {0}
  BY DEF Ctr!Inputs
<1>1. PICK h : IsSum(h, c) /\ Ctr!Number(c) = h[16]
  BY NumberIs
<1>2. h[16] \in Nat /\ h[16] + 0 = h[16]
  BY <1>1 DEF IsSum
<1>3. PICK f : IsAbove(f, h[16])
  BY <1>2, DigitsAre
<1>4. ASSUME NEW p \in 1..16
      PROVE  /\ h[p] \div CounterVals = h[p - 1]
             /\ h[p] % CounterVals = c[p]
  <2>1. p - 1 \in 0..16 /\ h[p - 1] \in Nat /\ c[p] \in 0..(CounterVals - 1)
    BY <1>1 DEF IsSum, CtrBlocks, CtrBytes
  <2>2. h[p] = (CounterVals * h[p - 1]) + c[p]
    BY <1>1 DEF IsSum
  <2> DEFINE q == h[p - 1]
             r0 == c[p]
             b == CounterVals
  <2>3. b \in Nat \ {0} /\ q \in Nat /\ r0 \in 0..(b - 1) /\ h[p] = (b * q) + r0
    BY <1>0, <2>1, <2>2
  <2> HIDE DEF q, r0, b
  <2>4. h[p] \div b = q /\ h[p] % b = r0
    BY <2>3, DivisionUnique
  <2> QED BY <2>4 DEF q, r0, b
<1>5. \A k \in 0..15 : f[k] = h[16 - k]
  <2> DEFINE U == {k \in 0..15 : f[k] # h[16 - k]}
  <2>1. SUFFICES ASSUME U # {} PROVE FALSE
    OBVIOUS
  <2>2. U \subseteq Nat
    OBVIOUS
  <2>3. PICK m \in U : \A k \in U : m <= k
    BY <2>1, <2>2, LeastElement
  <2>4. m \in 0..15 /\ f[m] # h[16 - m] /\ m # 0
    BY <1>3 DEF IsAbove
  <2>5. m - 1 \in 0..15 /\ ~(m <= m - 1) /\ m \in 1..15
    BY <2>4
  <2>6. f[m - 1] = h[16 - (m - 1)]
    BY <2>3, <2>5
  <2>7. f[m] = f[m - 1] \div CounterVals
    BY <1>3, <2>5 DEF IsAbove
  <2>8. 16 - (m - 1) \in 1..16 /\ (16 - (m - 1)) - 1 = 16 - m
    BY <2>5
  <2>9. h[16 - (m - 1)] \div CounterVals = h[16 - m]
    BY <1>4, <2>8
  <2> QED BY <2>4, <2>6, <2>7, <2>9
<1>6. \A p \in 1..16 : f[16 - p] % CounterVals = c[p]
  <2>1. \A p \in 1..16 : 16 - p \in 0..15 /\ 16 - (16 - p) = p
    OBVIOUS
  <2> QED BY <1>4, <1>5, <2>1
<1>7. Ctr!Digits(h[16]) = c
  <2>1. c = [p \in 1..16 |-> c[p]]
    BY DEF CtrBlocks
  <2>2. Ctr!Digits(h[16]) = [p \in 1..16 |-> f[16 - p] % CounterVals]
    BY <1>3 DEF IsAbove
  <2> DEFINE D == 1..16
  <2>3. \A p \in D : f[16 - p] % CounterVals = c[p]
    BY <1>6
  <2>4. c = [p \in D |-> c[p]] /\ Ctr!Digits(h[16]) = [p \in D |-> f[16 - p] % CounterVals]
    BY <2>1, <2>2
  <2> HIDE DEF D
  <2> QED BY <2>3, <2>4
<1> QED BY <1>1, <1>2, <1>7 DEF Ctr!Plus

\* The bytes behind p have got the carry from n to n + 1, byte p is next.
CarriesTo(c, n, p, f, h) ==
    /\ IsAbove(f, n) /\ IsAbove(h, n + 1)
    /\ h[16 - p] = f[16 - p] + 1
    /\ \A q \in 1..p : c[q] = f[16 - q] % CounterVals
    /\ \A q \in (p + 1)..16 : c[q] = h[16 - q] % CounterVals
Carrying(c, n, p) == \E f, h : CarriesTo(c, n, p, f, h)

\* The carry starts behind the last byte,
LEMMA CarryStarts ==
    ASSUME Ctr!Inputs, NEW n, n \in Nat
    PROVE  Carrying(Ctr!Digits(n), n, 16)
<1>1. PICK f : IsAbove(f, n)
  BY DigitsAre
<1>2. n + 1 \in Nat
  OBVIOUS
<1>3. PICK h : IsAbove(h, n + 1)
  BY <1>2, DigitsAre
<1>4. h[16 - 16] = f[16 - 16] + 1
  <2>1. 16 - 16 = 0
    OBVIOUS
  <2> QED BY <1>1, <1>3, <2>1 DEF IsAbove
<1>5. \A q \in 1..16 : Ctr!Digits(n)[q] = f[16 - q] % CounterVals
  BY <1>1 DEF IsAbove
<1>6. \A q \in (16 + 1)..16 : FALSE
  OBVIOUS
<1> QED BY <1>1, <1>3, <1>4, <1>5, <1>6 DEF Carrying, CarriesTo

\* One byte more.
CarryByte(c, p) == [c EXCEPT ![p] = (c[p] + 1) % CounterVals]

\* what becomes of it in byte p:
LEMMA CarryStep ==
    ASSUME Ctr!Inputs, NEW c, c \in CtrBlocks, NEW n, n \in Nat, NEW p, p \in 1..16,
           NEW f, NEW h, CarriesTo(c, n, p, f, h)
    PROVE  /\ CarryByte(c, p) \in CtrBlocks
           /\ CarryByte(c, p)[p] = h[16 - p] % CounterVals
           /\ \A q \in 1..16 : q # p => CarryByte(c, p)[q] = c[q]
           /\ p > 1 => h[16 - (p - 1)] = f[16 - (p - 1)]
                                         + (IF CarryByte(c, p)[p] = 0 THEN 1 ELSE 0)
<1>0. CounterVals \in Nat \ {0}
  BY DEF Ctr!Inputs
<1> DEFINE b == CounterVals
           x == f[16 - p]
<1>a. /\ IsAbove(f, n) /\ IsAbove(h, n + 1)
      /\ h[16 - p] = f[16 - p] + 1
      /\ \A q \in 1..p : c[q] = f[16 - q] % CounterVals
  BY DEF CarriesTo
<1>1. 16 - p \in 0..15 /\ x \in Nat
  <2>1. 16 - p \in 0..15
    OBVIOUS
  <2> QED BY <1>a, <2>1 DEF IsAbove
<1>2. c[p] = x % b
  BY <1>a
<1>3. /\ (x + 1) % b = ((x % b) + 1) % b
      /\ (x + 1) \div b = (x \div b) + (IF ((x % b) + 1) % b = 0 THEN 1 ELSE 0)
  <2> HIDE DEF x, b
  <2>1. b \in Nat \ {0}
    BY <1>0 DEF b
  <2> QED BY <1>1, <2>1, DivisionOnce
<1>4. (c[p] + 1) % b = (x + 1) % b
  BY <1>2, <1>3
<1>5. (c[p] + 1) % b \in CtrBytes
  <2>1. c[p] \in Nat
    BY <1>0 DEF CtrBlocks, CtrBytes
  <2>2. c[p] + 1 \in Nat
    BY <2>1
  <2> QED BY <1>0, <2>2, DivisionIs DEF CtrBytes
<1>6. CarryByte(c, p) \in CtrBlocks /\ CarryByte(c, p)[p] = (c[p] + 1) % b
  BY <1>5 DEF CarryByte, CtrBlocks
<1>7. \A q \in 1..16 : q # p => CarryByte(c, p)[q] = c[q]
  BY DEF CarryByte, CtrBlocks
<1>8. CarryByte(c, p)[p] = h[16 - p] % b
  BY <1>4, <1>6, <1>a
<1>9. ASSUME p > 1
      PROVE  h[16 - (p - 1)] = f[16 - (p - 1)] + (IF CarryByte(c, p)[p] = 0 THEN 1 ELSE 0)
  <2> DEFINE m == 16 - (p - 1)
  <2>1. m \in 1..15 /\ m - 1 = 16 - p
    BY <1>9
  <2>2. f[m] = f[m - 1] \div b /\ h[m] = h[m - 1] \div b
    BY <1>a, <2>1 DEF IsAbove
  <2>3. f[m] = x \div b /\ h[m] = (x + 1) \div b
    BY <1>a, <2>1, <2>2
  <2> HIDE DEF x, b, m
  <2>4. CarryByte(c, p)[p] = ((x % b) + 1) % b
    BY <1>2, <1>6
  <2>5. h[m] = f[m] + (IF CarryByte(c, p)[p] = 0 THEN 1 ELSE 0)
    BY <1>3, <2>3, <2>4
  <2> QED BY <2>5 DEF m
<1> QED BY <1>6, <1>7, <1>8, <1>9

\* A byte that becomes zero passes the carry on,
LEMMA CarryOn ==
    ASSUME Ctr!Inputs, NEW c, c \in CtrBlocks, NEW n, n \in Nat, NEW p, p \in 2..16,
           Carrying(c, n, p), CarryByte(c, p)[p] = 0
    PROVE  Carrying(CarryByte(c, p), n, p - 1)
<1>p. PICK f, h : CarriesTo(c, n, p, f, h)
  BY DEF Carrying
<1>1. /\ IsAbove(f, n) /\ IsAbove(h, n + 1)
      /\ h[16 - p] = f[16 - p] + 1
      /\ \A q \in 1..p : c[q] = f[16 - q] % CounterVals
      /\ \A q \in (p + 1)..16 : c[q] = h[16 - q] % CounterVals
  BY <1>p DEF CarriesTo
<1> DEFINE d == CarryByte(c, p)
<1>2. /\ d[p] = h[16 - p] % CounterVals
      /\ \A q \in 1..16 : q # p => d[q] = c[q]
      /\ h[16 - (p - 1)] = f[16 - (p - 1)] + 1
  <2>1. p \in 1..16 /\ p > 1
    OBVIOUS
  <2> QED BY <1>p, <2>1, CarryStep
<1> HIDE DEF d
<1>3. \A q \in 1..(p - 1) : d[q] = f[16 - q] % CounterVals
  <2>1. \A q \in 1..(p - 1) : q \in 1..p /\ q \in 1..16 /\ q # p
    OBVIOUS
  <2> QED BY <1>1, <1>2, <2>1
<1>4. \A q \in ((p - 1) + 1)..16 : d[q] = h[16 - q] % CounterVals
  <2>1. \A q \in ((p - 1) + 1)..16 : q = p \/ (q \in (p + 1)..16 /\ q \in 1..16 /\ q # p)
    OBVIOUS
  <2> QED BY <1>1, <1>2, <2>1
<1> QED BY <1>1, <1>2, <1>3, <1>4 DEF Carrying, CarriesTo, d

\* and one that does not, or the first, ends it.
LEMMA CarryEnds ==
    ASSUME Ctr!Inputs, NEW c, c \in CtrBlocks, NEW n, n \in Nat, NEW p, p \in 1..16,
           Carrying(c, n, p), CarryByte(c, p)[p] # 0 \/ p = 1
    PROVE  CarryByte(c, p) = Ctr!Digits(n + 1)
<1>0. CounterVals \in Nat \ {0}
  BY DEF Ctr!Inputs
<1>p. PICK f, h : CarriesTo(c, n, p, f, h)
  BY DEF Carrying
<1>1. /\ IsAbove(f, n) /\ IsAbove(h, n + 1)
      /\ h[16 - p] = f[16 - p] + 1
      /\ \A q \in 1..p : c[q] = f[16 - q] % CounterVals
      /\ \A q \in (p + 1)..16 : c[q] = h[16 - q] % CounterVals
  BY <1>p DEF CarriesTo
<1> DEFINE d == CarryByte(c, p)
<1>2. /\ d \in CtrBlocks /\ d[p] = h[16 - p] % CounterVals
      /\ \A q \in 1..16 : q # p => d[q] = c[q]
      /\ p > 1 => h[16 - (p - 1)] = f[16 - (p - 1)] + (IF d[p] = 0 THEN 1 ELSE 0)
  BY <1>p, CarryStep
<1>3. p > 1 => d[p] # 0
  OBVIOUS
<1> HIDE DEF d
<1>4. ASSUME p > 1 PROVE h[16 - (p - 1)] = f[16 - (p - 1)]
  <2>1. f[16 - (p - 1)] \in Nat
    <3>1. 16 - (p - 1) \in 0..15
      BY <1>4
    <3> QED BY <1>1, <3>1 DEF IsAbove
  <2> QED BY <1>2, <1>3, <1>4, <2>1
<1>5. \A q \in 1..(p - 1) : h[16 - q] = f[16 - q]
  <2> DEFINE U == {k \in 0..15 : k >= 16 - (p - 1) /\ f[k] # h[k]}
  <2>1. SUFFICES ASSUME U # {} PROVE FALSE
    <3>1. \A q \in 1..(p - 1) : 16 - q \in 0..15 /\ 16 - q >= 16 - (p - 1)
      OBVIOUS
    <3> QED BY <3>1
  <2>2. U \subseteq Nat
    OBVIOUS
  <2>3. PICK m \in U : \A k \in U : m <= k
    BY <2>1, <2>2, LeastElement
  <2>4. m \in 0..15 /\ m >= 16 - (p - 1) /\ f[m] # h[m]
    OBVIOUS
  <2>5. p > 1
    BY <2>4
  <2>6. m # 16 - (p - 1)
    BY <1>4, <2>4, <2>5
  <2>7. m - 1 \in 0..15 /\ m - 1 >= 16 - (p - 1) /\ ~(m <= m - 1) /\ m \in 1..15
    BY <2>4, <2>5, <2>6
  <2>8. f[m - 1] = h[m - 1]
    BY <2>3, <2>7
  <2>9. f[m] = f[m - 1] \div CounterVals /\ h[m] = h[m - 1] \div CounterVals
    BY <1>1, <2>7 DEF IsAbove
  <2> QED BY <2>4, <2>8, <2>9
<1>6. \A q \in 1..16 : d[q] = h[16 - q] % CounterVals
  <2>1. ASSUME NEW q \in 1..16 PROVE d[q] = h[16 - q] % CounterVals
    <3>1. CASE q = p
      BY <1>2, <3>1
    <3>2. CASE q \in 1..(p - 1)
      <4>1. q \in 1..p /\ q # p
        BY <3>2
      <4> QED BY <1>1, <1>2, <1>5, <3>2, <4>1
    <3>3. CASE q \in (p + 1)..16
      <4>1. q # p
        BY <3>3
      <4> QED BY <1>1, <1>2, <3>3, <4>1
    <3> QED BY <3>1, <3>2, <3>3
  <2> QED BY <2>1
<1>7. Ctr!Digits(n + 1) = [q \in 1..16 |-> h[16 - q] % CounterVals]
  BY <1>1 DEF IsAbove
<1>8. d = [q \in 1..16 |-> d[q]]
  BY <1>2 DEF CtrBlocks
<1>9. d = Ctr!Digits(n + 1)
  <2> DEFINE D == 1..16
  <2>1. \A q \in D : d[q] = h[16 - q] % CounterVals
    BY <1>6
  <2>2. d = [q \in D |-> d[q]] /\ Ctr!Digits(n + 1) = [q \in D |-> h[16 - q] % CounterVals]
    BY <1>7, <1>8
  <2> HIDE DEF D
  <2> QED BY <2>1, <2>2
<1> QED BY <1>9 DEF d

-----------------------------------------------------------------------------
\* Byte p of the data d, encrypted from the nonce c on.
CtrByte(c, d, p) ==
    Ctr!Xor(d[p], Ctr!Keystream(Ctr!Key, Ctr!Plus(c, (p - 1) \div 16), 1 + ((p - 1) % 16)))

\* The bytes a call has encrypted.
CtrDone == Len(cGiven) - cLeft

\* The types.
CtrTypes ==
    /\ cPc \in {"idle", "init", "blocks", "carry"}
    /\ cCtx = IF cPc \in {"idle", "init"} THEN 0 ELSE 1
    /\ cNonce \in CtrBlocks /\ cCounter \in CtrBlocks /\ cI \in 1..16
    /\ Len(cGiven) \in Nat /\ cGiven = [p \in 1..Len(cGiven) |-> cGiven[p]]
    /\ Len(cData) = Len(cGiven) /\ cData = [p \in 1..Len(cGiven) |-> cData[p]]
    /\ cLeft \in 0..Len(cGiven)

\* The data, as far as it has got; the counter is of the block that is next, and behind a
\* partial block it is of none.
CtrSoFar ==
    /\ cPc = "idle" => cData = IF cRet = 0 THEN Ctr!CtrOf(cNonce, cGiven) ELSE cGiven
    /\ cPc = "init" => cData = cGiven
    /\ cPc \in {"blocks", "carry"} =>
         \A p \in 1..Len(cGiven) :
             cData[p] = IF p <= CtrDone THEN CtrByte(cNonce, cGiven, p) ELSE cGiven[p]
CtrNumber ==
    /\ cPc = "blocks" =>
         \E k \in Nat : /\ cCounter = Ctr!Plus(cNonce, k)
                        /\ CtrDone = 16 * k \/ cLeft = 0
    /\ cPc = "carry" =>
         \E k \in Nat : /\ Carrying(cCounter, Ctr!Number(cNonce) + k, cI)
                        /\ CtrDone = 16 * (k + 1) \/ cLeft = 0

\* The inductive invariant.
CtrInv == CtrTypes /\ CtrSoFar /\ CtrNumber

\* It holds before the first call,
LEMMA CtrStarts ==
    ASSUME Ctr!Inputs, Ctr!Init PROVE CtrInv
<1>1. cNonce \in CtrBlocks /\ Ctr!IsSeq(cGiven) /\ cData = cGiven
  BY DEF Ctr!Inputs, Ctr!Init, CtrBlocks, CtrBytes, Ctr!Block
<1>2. CtrTypes
  BY <1>1 DEF CtrTypes, Ctr!Init, Ctr!IsSeq, Ctr!Block
<1>3. CtrSoFar /\ CtrNumber
  BY <1>1 DEF CtrSoFar, CtrNumber, Ctr!Init
<1> QED BY <1>2, <1>3 DEF CtrInv

\* A block is a number.
LEMMA NumberType ==
    ASSUME Ctr!Inputs, NEW c \in CtrBlocks PROVE Ctr!Number(c) \in Nat
<1>1. PICK h : IsSum(h, c) /\ Ctr!Number(c) = h[16]
  BY NumberIs
<1> QED BY <1>1 DEF IsSum

\* when a call begins or fails,
LEMMA CtrCallStep ==
    ASSUME CtrInv, Ctr!Call \/ Ctr!InitFails PROVE CtrInv'
<1>1. CtrTypes'
  BY DEF CtrInv, CtrTypes, Ctr!Call, Ctr!InitFails
<1>2. CtrSoFar' /\ CtrNumber'
  BY SMTT(40) DEF CtrInv, CtrTypes, CtrSoFar, CtrNumber, Ctr!Call, Ctr!InitFails
<1> QED BY <1>1, <1>2 DEF CtrInv

\* when its context is there,
LEMMA CtrInitStep ==
    ASSUME Ctr!Inputs, CtrInv, Ctr!InitSucceeds PROVE CtrInv'
<1>1. cPc = "init" /\ cPc' = "blocks" /\ cData' = cData /\ cGiven' = cGiven /\ cNonce' = cNonce
  BY DEF Ctr!InitSucceeds
<1>2. cData = cGiven /\ cLeft' = Len(cGiven) /\ Len(cGiven) \in Nat /\ cCounter' = cNonce
  BY <1>1 DEF CtrInv, CtrTypes, CtrSoFar, Ctr!InitSucceeds
<1>3. CtrTypes'
  BY <1>2 DEF CtrInv, CtrTypes, Ctr!InitSucceeds
<1>4. CtrDone' = 0
  BY <1>1, <1>2 DEF CtrDone
<1>5. CtrSoFar'
  <2>1. \A p \in 1..Len(cGiven) : ~(p <= 0)
    BY <1>2
  <2>2. \A p \in 1..Len(cGiven') :
           cData'[p] = IF p <= CtrDone' THEN CtrByte(cNonce', cGiven', p) ELSE cGiven'[p]
    BY <1>1, <1>2, <1>4, <2>1
  <2> QED BY <1>1, <2>2 DEF CtrSoFar, CtrByte
<1>6. cCounter' = Ctr!Plus(cNonce', 0)
  <2>1. Ctr!Plus(cNonce, 0) = cNonce
    BY PlusNothing DEF CtrInv, CtrTypes
  <2> QED BY <1>1, <1>2, <2>1
<1>7. CtrNumber'
  <2>1. 0 \in Nat /\ CtrDone' = 16 * 0
    BY <1>4
  <2> QED BY <1>1, <1>6, <2>1 DEF CtrNumber
<1> QED BY <1>3, <1>5, <1>7 DEF CtrInv

\* The place of a byte of block k.
LEMMA PlaceInBlock ==
    ASSUME NEW k, k \in Nat, NEW p, p \in ((16 * k) + 1)..((16 * k) + 16)
    PROVE  (p - 1) \div 16 = k /\ 1 + ((p - 1) % 16) = p - (16 * k)
  OBVIOUS

\* when a block is encrypted and its bytes are as the definition has them,
LEMMA CtrBlockStep ==
    ASSUME Ctr!Inputs, CtrInv, Ctr!EncryptBlock PROVE CtrInv'
<1>1. /\ cPc = "blocks" /\ cLeft > 0 /\ cPc' = "carry" /\ cI' = 16
      /\ cGiven' = cGiven /\ cNonce' = cNonce /\ cCounter' = cCounter /\ cCtx' = cCtx
      /\ cLeft' = cLeft - Ctr!BlockLen
  BY DEF Ctr!EncryptBlock, Ctr!Block
<1>2. /\ Len(cGiven) \in Nat /\ cLeft \in 0..Len(cGiven)
      /\ Len(cData) = Len(cGiven) /\ DOMAIN cData = 1..Len(cGiven)
      /\ cNonce \in CtrBlocks
  BY DEF CtrInv, CtrTypes
<1> DEFINE b == Ctr!BlockLen
<1>3. b \in 1..16 /\ b <= cLeft /\ (b < 16 => b = cLeft)
  BY <1>1, <1>2 DEF Ctr!BlockLen, Ctr!Block
<1>4. PICK k \in Nat : cCounter = Ctr!Plus(cNonce, k) /\ CtrDone = 16 * k
  BY <1>1 DEF CtrInv, CtrNumber
<1>5. cData' = [p \in 1..Len(cGiven) |->
                  IF p \in (CtrDone + 1)..(CtrDone + b)
                  THEN Ctr!Xor(cData[p], Ctr!Keystream(Ctr!Key, cCounter, p - CtrDone))
                  ELSE cData[p]]
  BY <1>2 DEF Ctr!EncryptBlock, CtrDone
<1>6. CtrDone \in Nat /\ CtrDone' = CtrDone + b /\ cLeft' \in 0..Len(cGiven)
  <2>1. CtrDone' = Len(cGiven) - (cLeft - b)
    BY <1>1 DEF CtrDone
  <2> HIDE DEF b
  <2> QED BY <1>1, <1>2, <1>3, <2>1 DEF CtrDone, b
<1> HIDE DEF b
<1>7. \A p \in 1..Len(cGiven) :
         cData[p] = IF p <= CtrDone THEN CtrByte(cNonce, cGiven, p) ELSE cGiven[p]
  BY <1>1 DEF CtrInv, CtrSoFar
<1>8. \A p \in 1..Len(cGiven) :
         cData'[p] = IF p <= CtrDone' THEN CtrByte(cNonce, cGiven, p) ELSE cGiven[p]
  <2>1. ASSUME NEW p \in 1..Len(cGiven)
        PROVE  cData'[p] = IF p <= CtrDone' THEN CtrByte(cNonce, cGiven, p) ELSE cGiven[p]
    <3>1. CASE p \in (CtrDone + 1)..(CtrDone + b)
      <4>1. cData[p] = cGiven[p] /\ p <= CtrDone'
        BY <1>3, <1>6, <1>7, <3>1
      <4>2. cData'[p] = Ctr!Xor(cGiven[p], Ctr!Keystream(Ctr!Key, cCounter, p - CtrDone))
        BY <1>5, <3>1, <4>1
      <4>3. p \in ((16 * k) + 1)..((16 * k) + 16)
        BY <1>3, <1>4, <3>1
      <4>4. (p - 1) \div 16 = k /\ 1 + ((p - 1) % 16) = p - (16 * k)
        BY <4>3, PlaceInBlock
      <4> QED BY <1>4, <4>1, <4>2, <4>4 DEF CtrByte
    <3>2. CASE p \notin (CtrDone + 1)..(CtrDone + b)
      <4>1. cData'[p] = cData[p]
        BY <1>5, <3>2
      <4>2. p <= CtrDone <=> p <= CtrDone'
        BY <1>3, <1>6, <3>2
      <4> QED BY <1>7, <4>1, <4>2
    <3> QED BY <3>1, <3>2
  <2> QED BY <2>1
<1>9. Len(cData') = Len(cGiven) /\ cData' = [p \in 1..Len(cGiven) |-> cData'[p]]
  <2> DEFINE F(p) == IF p \in (CtrDone + 1)..(CtrDone + b)
                     THEN Ctr!Xor(cData[p], Ctr!Keystream(Ctr!Key, cCounter, p - CtrDone))
                     ELSE cData[p]
  <2>1. cData' = [p \in 1..Len(cGiven) |-> F(p)]
    BY <1>5
  <2> HIDE DEF F
  <2> QED BY <1>2, <2>1
<1>10. CtrTypes'
  BY <1>1, <1>2, <1>6, <1>9 DEF CtrInv, CtrTypes
<1>11. CtrSoFar'
  <2>1. \A p \in 1..Len(cGiven') :
           cData'[p] = IF p <= CtrDone' THEN CtrByte(cNonce', cGiven', p) ELSE cGiven'[p]
    BY <1>1, <1>8
  <2> QED BY <1>1, <2>1 DEF CtrSoFar, CtrByte
<1>12. CtrNumber'
  <2>1. Ctr!Number(cNonce) \in Nat
    BY <1>2, NumberType
  <2>2. Ctr!Number(cNonce) + k \in Nat
    BY <1>4, <2>1
  <2>3. Carrying(Ctr!Digits(Ctr!Number(cNonce) + k), Ctr!Number(cNonce) + k, 16)
    BY <2>2, CarryStarts
  <2>4. Carrying(cCounter', Ctr!Number(cNonce') + k, cI')
    BY <1>1, <1>4, <2>3 DEF Ctr!Plus
  <2>5. CtrDone' = 16 * (k + 1) \/ cLeft' = 0
    BY <1>1, <1>2, <1>3, <1>4, <1>6 DEF b
  <2> QED BY <1>1, <1>4, <2>4, <2>5 DEF CtrNumber
<1> QED BY <1>10, <1>11, <1>12 DEF CtrInv

\* while the counter is incremented, which ends at the next number,
LEMMA CtrCarryStep ==
    ASSUME Ctr!Inputs, CtrInv, Ctr!Carry PROVE CtrInv'
<1>1. /\ cPc = "carry" /\ UNCHANGED <<cNonce, cGiven, cCtx, cData, cLeft, cRet>>
      /\ cCounter' = [cCounter EXCEPT ![cI] = (cCounter[cI] + 1) % CounterVals]
      /\ IF cCounter'[cI] = 0 /\ cI > 1
         THEN cI' = cI - 1 /\ cPc' = cPc
         ELSE cPc' = "blocks" /\ cI' = cI
  BY DEF Ctr!Carry
<1>2. cCounter' = CarryByte(cCounter, cI)
  BY <1>1 DEF CarryByte
<1>3. cNonce \in CtrBlocks /\ cCounter \in CtrBlocks /\ cI \in 1..16
  BY DEF CtrInv, CtrTypes
<1>4. PICK k \in Nat : /\ Carrying(cCounter, Ctr!Number(cNonce) + k, cI)
                       /\ CtrDone = 16 * (k + 1) \/ cLeft = 0
  BY <1>1 DEF CtrInv, CtrNumber
<1> DEFINE n == Ctr!Number(cNonce) + k
<1>5. n \in Nat /\ n + 1 = Ctr!Number(cNonce) + (k + 1) /\ k + 1 \in Nat
  <2>1. Ctr!Number(cNonce) \in Nat
    BY <1>3, NumberType
  <2> QED BY <1>4, <2>1
<1>6. Carrying(cCounter, n, cI)
  BY <1>4
<1>7. CtrDone' = CtrDone
  BY <1>1 DEF CtrDone
<1> HIDE DEF n
<1>8. cCounter' \in CtrBlocks
  <2>1. PICK f, h : CarriesTo(cCounter, n, cI, f, h)
    BY <1>6 DEF Carrying
  <2> QED BY <1>2, <1>3, <1>5, <2>1, CarryStep
<1>9. CtrSoFar'
  BY <1>1, <1>7 DEF CtrInv, CtrSoFar, CtrByte
<1>10. CASE cCounter'[cI] = 0 /\ cI > 1
  <2>1. cI \in 2..16
    BY <1>3, <1>10
  <2>2. Carrying(cCounter', n, cI - 1)
    BY <1>2, <1>3, <1>5, <1>6, <1>10, <2>1, CarryOn
  <2>3. cPc' = "carry" /\ cI' = cI - 1 /\ cI' \in 1..16 /\ cLeft' = cLeft /\ cNonce' = cNonce
    BY <1>1, <1>10, <2>1
  <2>4. CtrNumber'
    BY <1>4, <1>7, <2>2, <2>3 DEF CtrNumber, n
  <2>5. CtrTypes'
    BY <1>1, <1>8, <2>3 DEF CtrInv, CtrTypes
  <2> QED BY <1>9, <2>4, <2>5 DEF CtrInv
<1>11. CASE ~(cCounter'[cI] = 0 /\ cI > 1)
  <2>1. cCounter'[cI] # 0 \/ cI = 1
    BY <1>3, <1>11
  <2>2. cCounter' = Ctr!Digits(n + 1)
    BY <1>2, <1>3, <1>5, <1>6, <2>1, CarryEnds
  <2>3. cPc' = "blocks" /\ cI' = cI /\ cLeft' = cLeft /\ cNonce' = cNonce
    BY <1>1, <1>11
  <2>4. cCounter' = Ctr!Plus(cNonce', k + 1)
    BY <1>5, <2>2, <2>3 DEF Ctr!Plus
  <2>5. CtrNumber'
    BY <1>4, <1>5, <1>7, <2>3, <2>4 DEF CtrNumber
  <2>6. CtrTypes'
    BY <1>1, <1>8, <2>3 DEF CtrInv, CtrTypes
  <2> QED BY <1>9, <2>5, <2>6 DEF CtrInv
<1> QED BY <1>10, <1>11

\* and when the call returns.
LEMMA CtrReturnStep ==
    ASSUME CtrInv, Ctr!Return PROVE CtrInv'
<1>1. /\ cPc = "blocks" /\ cLeft = 0 /\ cPc' = "idle" /\ cRet' = 0
      /\ UNCHANGED <<cNonce, cGiven, cData, cLeft, cCounter, cI>> /\ cCtx' = cCtx - 1
  BY DEF Ctr!Return
<1>2. CtrTypes'
  BY <1>1 DEF CtrInv, CtrTypes
<1>3. Len(cGiven) \in Nat /\ CtrDone = Len(cGiven)
  BY <1>1 DEF CtrInv, CtrTypes, CtrDone
<1>4. \A p \in 1..Len(cGiven) : cData[p] = CtrByte(cNonce, cGiven, p)
  BY <1>1, <1>3 DEF CtrInv, CtrSoFar
<1>5. cData = Ctr!CtrOf(cNonce, cGiven)
  <2> DEFINE D == 1..Len(cGiven)
  <2>1. cData = [p \in D |-> cData[p]]
    BY DEF CtrInv, CtrTypes
  <2>2. Ctr!CtrOf(cNonce, cGiven) = [p \in D |-> CtrByte(cNonce, cGiven, p)]
    BY DEF Ctr!CtrOf, CtrByte, Ctr!Block
  <2>3. \A p \in D : cData[p] = CtrByte(cNonce, cGiven, p)
    BY <1>4
  <2> HIDE DEF D
  <2> QED BY <2>1, <2>2, <2>3
<1>6. cData' = Ctr!CtrOf(cNonce', cGiven')
  BY <1>1, <1>5
<1>7. CtrSoFar' /\ CtrNumber'
  BY <1>1, <1>6 DEF CtrSoFar, CtrNumber
<1> QED BY <1>2, <1>7 DEF CtrInv

\* Every step keeps it.
LEMMA CtrStays ==
    ASSUME Ctr!Inputs, CtrInv, [Ctr!Next]_(Ctr!vars) PROVE CtrInv'
<1>1. CASE Ctr!Call \/ Ctr!InitFails
  BY <1>1, CtrCallStep
<1>2. CASE Ctr!InitSucceeds
  BY <1>2, CtrInitStep
<1>3. CASE Ctr!EncryptBlock
  BY <1>3, CtrBlockStep
<1>4. CASE Ctr!Carry
  BY <1>4, CtrCarryStep
<1>5. CASE Ctr!Return
  BY <1>5, CtrReturnStep
<1>6. CASE UNCHANGED Ctr!vars
  BY <1>6 DEF Ctr!vars, CtrInv, CtrTypes, CtrSoFar, CtrNumber, CtrDone, CtrByte
<1> QED BY <1>1, <1>2, <1>3, <1>4, <1>5, <1>6 DEF Ctr!Next

-----------------------------------------------------------------------------
\* The rows that are printed.
DumpHex == DumpBytes \cup {Dump!Blank}
\* What a line may hold in its columns, and the lines there are.
DumpText == Printable \cup {Dump!Blank, Dump!Underscore}
DumpRows ==
    [kind : {"message", "null", "dump", "redacted", "line"}, stamp : BOOLEAN,
     hex : Seq(DumpHex), text : Seq(DumpText)]

\* How many there are of a whole dump, its title included.
DumpHeight == 1 + ((Len(dCall.buf) + LineLen - 1) \div LineLen)

\* The types.
DumpTypes ==
    /\ aes_debug_level \in Levels
    /\ aes_debug_show_keys \in BOOLEAN /\ aes_debug_timestamp \in BOOLEAN
    /\ dPc \in {"idle", "lines"}
    /\ dCall.buf \in Seq(DumpBytes) /\ Len(dCall.buf) <= MaxLen
    /\ dPos \in 0..MaxLen /\ dLen \in 0..MaxLen
    /\ dOut \in Seq(DumpRows)

\* The lines so far, of the bytes before dPos.
DumpSoFar ==
    /\ \A l \in 2..Len(dOut) : Dump!Shows(l)
    /\ dPc = "lines" =>
         /\ dOut # <<>> /\ Dump!Show(dCall.function)
         /\ dPos + dLen = Len(dCall.buf)
         /\ dLen > 0 => dPos = LineLen * (Len(dOut) - 1)
         /\ dLen = 0 => Len(dOut) = DumpHeight
    /\ dPc = "idle" /\ Dump!IsAscii(dCall.function) /\ dOut # <<>> /\ dOut[1].kind = "dump" =>
         Len(dOut) = DumpHeight

\* Of a key that is to be hidden there is a title at most.
DumpHidden ==
    Dump!IsKey(dCall.function) /\ ~aes_debug_show_keys =>
        Len(dOut) <= 1 /\ (dOut # <<>> => dOut[1].hex = <<>> /\ dOut[1].text = <<>>)

\* The invariant of the dumps.
DumpInv == DumpTypes /\ DumpSoFar /\ DumpHidden

\* It holds before the first dump.
LEMMA DumpStarts ==
    ASSUME Dump!Inputs, Dump!Init PROVE DumpInv
<1>1. DumpTypes
  BY DEF Dump!Inputs, Dump!Init, DumpTypes
<1>2. dOut = <<>> /\ dPc = "idle" /\ Len(dOut) = 0
  BY DEF Dump!Init
<1> QED BY <1>1, <1>2 DEF DumpInv, DumpSoFar, DumpHidden

\* A call that prints one row and returns.
LEMMA DumpOneRow ==
    ASSUME Dump!Inputs, DumpInv, dPc' = "idle", UNCHANGED <<dPos, dLen>>,
           aes_debug_level' \in Levels, aes_debug_show_keys' \in BOOLEAN,
           aes_debug_timestamp' \in BOOLEAN,
           dCall'.buf \in Seq(DumpBytes), Len(dCall'.buf) <= MaxLen,
           dOut' = <<>> \/ \E t0 \in DumpRows :
               /\ dOut' = <<t0>>
               /\ Dump!IsAscii(dCall'.function) => t0.kind # "dump"
               /\ Dump!IsKey(dCall'.function) /\ ~aes_debug_show_keys' =>
                    t0.hex = <<>> /\ t0.text = <<>>
    PROVE  DumpInv'
<1>1. CASE dOut' = <<>>
  <2>1. Len(dOut') = 0 /\ dOut' \in Seq(DumpRows)
    BY <1>1
  <2> QED BY <1>1, <2>1 DEF DumpInv, DumpTypes, DumpSoFar, DumpHidden
<1>2. ASSUME NEW t0 \in DumpRows, dOut' = <<t0>>,
             Dump!IsAscii(dCall'.function) => t0.kind # "dump",
             Dump!IsKey(dCall'.function) /\ ~aes_debug_show_keys' => t0.hex = <<>> /\ t0.text = <<>>
      PROVE  DumpInv'
  <2>1. Len(dOut') = 1 /\ dOut'[1] = t0 /\ dOut' \in Seq(DumpRows)
    BY <1>2
  <2>2. DumpTypes'
    BY <2>1 DEF DumpInv, DumpTypes
  <2>3. DumpSoFar'
    BY <1>2, <2>1 DEF DumpSoFar
  <2>4. DumpHidden'
    BY <1>2, <2>1 DEF DumpHidden
  <2> QED BY <2>2, <2>3, <2>4 DEF DumpInv
<1> QED BY <1>1, <1>2

\* A line has its type.
LEMMA DumpRowTypes ==
    ASSUME aes_debug_timestamp \in BOOLEAN,
           NEW k0 \in {"message", "null", "dump", "redacted", "line"},
           NEW h0 \in Seq(DumpHex)
    PROVE  /\ Dump!Line(k0, h0, <<>>) \in DumpRows
           /\ Dump!Line(k0, h0, <<>>).kind = k0
           /\ Dump!Line(k0, h0, <<>>).hex = h0 /\ Dump!Line(k0, h0, <<>>).text = <<>>
<1>1. <<>> \in Seq(DumpText)
  OBVIOUS
<1>2. Dump!Line(k0, h0, <<>>) =
        [kind |-> k0, stamp |-> aes_debug_timestamp, hex |-> h0, text |-> <<>>]
  BY DEF Dump!Line
<1>3. ASSUME NEW b0 \in BOOLEAN
      PROVE  [kind |-> k0, stamp |-> b0, hex |-> h0, text |-> <<>>] \in DumpRows
  BY <1>1, Zenon DEF DumpRows
<1>4. Dump!Line(k0, h0, <<>>) \in DumpRows
  BY <1>2, <1>3
<1> QED BY <1>2, <1>4

\* Settings and single lines of text leave the dump alone.
LEMMA DumpQuietStep ==
    ASSUME Dump!Inputs, DumpInv, Dump!Configure \/ \E v0 \in Levels : Dump!Printf(v0)
    PROVE  DumpInv'
<1>1. <<>> \in Seq(DumpBytes) /\ Len(<<>>) = 0 /\ <<>> \in Seq(DumpHex)
  OBVIOUS
<1>2. CASE Dump!Configure
  <2>1. /\ dPc' = "idle" /\ UNCHANGED <<dPos, dLen>>
        /\ aes_debug_level' \in Levels /\ aes_debug_show_keys' \in BOOLEAN
        /\ aes_debug_timestamp' \in BOOLEAN
        /\ dCall'.buf = <<>> /\ dOut' = <<>>
    BY <1>2 DEF Dump!Configure
  <2>2. Len(dCall'.buf) <= MaxLen /\ dCall'.buf \in Seq(DumpBytes)
    BY <1>1, <2>1 DEF Dump!Inputs
  <2> QED BY <2>1, <2>2, DumpOneRow
<1>3. ASSUME NEW v0 \in Levels, Dump!Printf(v0) PROVE DumpInv'
  <2> DEFINE t0 == Dump!Line("message", <<>>, <<>>)
  <2>1. /\ dPc' = "idle" /\ UNCHANGED <<dPos, dLen>> /\ UNCHANGED Dump!settings
        /\ dCall'.buf = <<>> /\ dCall'.function = "printf"
        /\ dOut' = <<>> \/ dOut' = <<t0>>
    BY <1>3 DEF Dump!Printf
  <2>2. Len(dCall'.buf) <= MaxLen /\ dCall'.buf \in Seq(DumpBytes)
    BY <1>1, <2>1 DEF Dump!Inputs
  <2>3. t0 \in DumpRows /\ t0.hex = <<>> /\ t0.text = <<>> /\ t0.kind = "message"
    <3>1. aes_debug_timestamp \in BOOLEAN
      BY DEF DumpInv, DumpTypes
    <3> QED BY <1>1, <3>1, DumpRowTypes
  <2> HIDE DEF t0
  <2>4. aes_debug_level' \in Levels /\ aes_debug_show_keys' \in BOOLEAN
        /\ aes_debug_timestamp' \in BOOLEAN
    BY <2>1 DEF DumpInv, DumpTypes, Dump!settings
  <2>5. dOut' = <<>> \/ \E t1 \in DumpRows :
               /\ dOut' = <<t1>>
               /\ Dump!IsAscii(dCall'.function) => t1.kind # "dump"
               /\ Dump!IsKey(dCall'.function) /\ ~aes_debug_show_keys' =>
                    t1.hex = <<>> /\ t1.text = <<>>
    BY <2>1, <2>3
  <2> QED BY <2>1, <2>2, <2>4, <2>5, DumpOneRow
<1> QED BY <1>2, <1>3

-----------------------------------------------------------------------------
\* What there is to dump is a sequence no longer than the limit.
LEMMA BuffersAre ==
    ASSUME Dump!Inputs, NEW u \in Dump!Buffers
    PROVE  u \in Seq(DumpBytes) /\ Len(u) <= MaxLen /\ Len(u) \in Nat
<1>1. PICK m \in 0..MaxLen : u \in [1..m -> DumpBytes]
  BY DEF Dump!Buffers
<1>2. m \in Nat /\ m <= MaxLen
  BY DEF Dump!Inputs
<1>3. Len(u) = m /\ u \in Seq(DumpBytes)
  BY <1>1, <1>2
<1> QED BY <1>2, <1>3

\* A dump that shows its lines: the title, and the loop to come.
LEMMA DumpBegins ==
    ASSUME Dump!Inputs, DumpInv, NEW t0 \in DumpRows, t0.text = <<>>,
           UNCHANGED Dump!settings, dCall'.buf \in Seq(DumpBytes), Len(dCall'.buf) <= MaxLen,
           dOut' = <<t0>>, Dump!Show(dCall.function)', dPc' = "lines", dPos' = 0,
           dLen' = Len(dCall'.buf)
    PROVE  DumpInv'
<1>1. Len(dOut') = 1 /\ dOut' \in Seq(DumpRows) /\ dOut' # <<>>
  OBVIOUS
<1>2. Len(dCall'.buf) \in Nat /\ LineLen \in Nat \ {0} /\ MaxLen \in Nat
  BY DEF Dump!Inputs
<1>3. dPos' \in 0..MaxLen /\ dLen' \in 0..MaxLen
  BY <1>2
<1>4. DumpTypes'
  BY <1>1, <1>3 DEF DumpInv, DumpTypes, Dump!settings
<1>5. dLen' = 0 => Len(dOut') = DumpHeight'
  <2>1. ASSUME dLen' = 0 PROVE DumpHeight' = 1
    <3>1. (0 + LineLen - 1) \div LineLen = 0
      <4>1. LineLen - 1 \in 0..(LineLen - 1) /\ 0 \in Nat
        BY <1>2
      <4>2. ((LineLen * 0) + (LineLen - 1)) \div LineLen = 0
        BY <1>2, <4>1, DivisionUnique
      <4>3. (LineLen * 0) + (LineLen - 1) = 0 + LineLen - 1
        BY <1>2
      <4> QED BY <4>2, <4>3
    <3>2. Len(dCall'.buf) = 0
      BY <2>1
    <3> QED BY <3>1, <3>2 DEF DumpHeight
  <2> QED BY <1>1, <2>1
<1>6. \A l \in 2..Len(dOut') : FALSE
  BY <1>1
<1>7. DumpSoFar'
  <2>1. dPos' + dLen' = Len(dCall'.buf)
    BY <1>2
  <2>2. dLen' > 0 => dPos' = LineLen * (Len(dOut') - 1)
    BY <1>1, <1>2
  <2> QED BY <1>1, <1>5, <1>6, <2>1, <2>2 DEF DumpSoFar
<1>8. DumpHidden'
  BY <1>1 DEF DumpHidden, Dump!Show
<1> QED BY <1>4, <1>7, <1>8 DEF DumpInv

\* A dump begins, or is over when there is nothing to show.
LEMMA DumpCallStep ==
    ASSUME Dump!Inputs, DumpInv, NEW f0 \in Dump!Dumps, NEW v0 \in Levels,
           NEW z0 \in BOOLEAN, NEW u \in Seq(DumpBytes), Len(u) <= MaxLen,
           Dump!Dump(f0, v0, z0, u)
    PROVE  DumpInv'
<1> DEFINE w0 == Dump!Show(f0)
           hexed == Dump!Hexdump(z0, u, w0)
           title == Dump!AsciiTitle(z0, w0)
<1>1. /\ dPc = "idle" /\ dCall'.function = f0 /\ dCall'.buf = u /\ UNCHANGED Dump!settings
      /\ IF v0 < aes_debug_level
         THEN dOut' = <<>> /\ UNCHANGED <<dPc, dPos, dLen>>
         ELSE IF ~Dump!IsAscii(f0)
         THEN dOut' = <<hexed>> /\ UNCHANGED <<dPc, dPos, dLen>>
         ELSE /\ dOut' = <<title>>
              /\ IF z0 \/ ~w0
                 THEN UNCHANGED <<dPc, dPos, dLen>>
                 ELSE dPc' = "lines" /\ dPos' = 0 /\ dLen' = Len(u)
  BY DEF Dump!Dump
<1>2. /\ dCall'.buf \in Seq(DumpBytes) /\ Len(dCall'.buf) <= MaxLen
      /\ aes_debug_level' \in Levels /\ aes_debug_show_keys' \in BOOLEAN
      /\ aes_debug_timestamp' \in BOOLEAN /\ aes_debug_timestamp \in BOOLEAN
  BY <1>1 DEF DumpInv, DumpTypes, Dump!settings
<1>3. u \in Seq(DumpHex) /\ <<>> \in Seq(DumpHex)
  BY DEF DumpHex
<1>4. hexed \in DumpRows /\ hexed.text = <<>> /\ (~w0 => hexed.hex = <<>>)
  <2>1. CASE z0
    BY <1>2, <1>3, <2>1, DumpRowTypes DEF Dump!Hexdump
  <2>2. CASE ~z0 /\ w0
    BY <1>2, <1>3, <2>2, DumpRowTypes DEF Dump!Hexdump
  <2>3. CASE ~z0 /\ ~w0
    BY <1>2, <1>3, <2>3, DumpRowTypes DEF Dump!Hexdump
  <2> QED BY <2>1, <2>2, <2>3
<1>5. title \in DumpRows /\ title.text = <<>> /\ title.hex = <<>>
      /\ (z0 \/ ~w0 => title.kind # "dump")
  <2>1. CASE ~w0
    BY <1>2, <1>3, <2>1, DumpRowTypes DEF Dump!AsciiTitle
  <2>2. CASE z0 /\ w0
    BY <1>2, <1>3, <2>2, DumpRowTypes DEF Dump!AsciiTitle
  <2>3. CASE ~z0 /\ w0
    BY <1>2, <1>3, <2>3, DumpRowTypes DEF Dump!AsciiTitle
  <2> QED BY <2>1, <2>2, <2>3
<1>6. /\ w0 => Dump!Show(dCall.function)'
      /\ Dump!IsKey(f0) /\ ~aes_debug_show_keys' => ~w0
  BY <1>1 DEF Dump!Show, Dump!settings
<1> HIDE DEF w0, hexed, title
<1>7. CASE v0 < aes_debug_level
  BY <1>1, <1>2, <1>7, DumpOneRow
<1>8. CASE ~(v0 < aes_debug_level) /\ ~Dump!IsAscii(f0)
  <2>1. \E t0 \in DumpRows :
               /\ dOut' = <<t0>>
               /\ Dump!IsAscii(dCall'.function) => t0.kind # "dump"
               /\ Dump!IsKey(dCall'.function) /\ ~aes_debug_show_keys' =>
                    t0.hex = <<>> /\ t0.text = <<>>
    BY <1>1, <1>4, <1>6, <1>8
  <2> QED BY <1>1, <1>2, <1>8, <2>1, DumpOneRow
<1>9. CASE ~(v0 < aes_debug_level) /\ Dump!IsAscii(f0) /\ (z0 \/ ~w0)
  <2>1. \E t0 \in DumpRows :
               /\ dOut' = <<t0>>
               /\ Dump!IsAscii(dCall'.function) => t0.kind # "dump"
               /\ Dump!IsKey(dCall'.function) /\ ~aes_debug_show_keys' =>
                    t0.hex = <<>> /\ t0.text = <<>>
    BY <1>1, <1>5, <1>6, <1>9
  <2> QED BY <1>1, <1>2, <1>9, <2>1, DumpOneRow
<1>10. CASE ~(v0 < aes_debug_level) /\ Dump!IsAscii(f0) /\ ~(z0 \/ ~w0)
  BY <1>1, <1>2, <1>5, <1>6, <1>10, DumpBegins
<1> QED BY <1>7, <1>8, <1>9, <1>10

-----------------------------------------------------------------------------
\* A function of 1..n is a sequence of n;
LEMMA SequenceOf ==
    ASSUME NEW S0, NEW m \in Nat, NEW u \in [1..m -> S0]
    PROVE  u \in Seq(S0) /\ Len(u) = m
  OBVIOUS

\* A line that is filled up.
LineOf(u) == [c \in 1..LineLen |-> IF c <= Len(u) THEN u[c] ELSE Dump!Blank]

\* a line filled up has the columns of the data, and blanks behind them.
LEMMA FilledIs ==
    ASSUME Dump!Inputs, NEW S0, NEW u \in Seq(S0), Len(u) <= LineLen
    PROVE  Dump!Filled(u) = LineOf(u)
<1> DEFINE T0 == S0 \cup {Dump!Blank}
           m == LineLen - Len(u)
           fill == [p \in 1..m |-> Dump!Blank]
<1>1. LineLen \in Nat /\ Len(u) \in Nat /\ m \in Nat
  BY DEF Dump!Inputs
<1>2. u \in Seq(T0) /\ fill \in Seq(T0) /\ Len(fill) = m
  <2>1. u \in Seq(T0)
    OBVIOUS
  <2>2. fill \in [1..m -> T0]
    OBVIOUS
  <2> HIDE DEF fill, T0, m
  <2> QED BY <1>1, <2>1, <2>2
<1>3. \A c \in 1..m : fill[c] = Dump!Blank
  OBVIOUS
<1>4. Dump!Filled(u) = u \o fill
  BY DEF Dump!Filled
<1> HIDE DEF fill, T0, m
<1>5. /\ u \o fill \in Seq(T0) /\ Len(u \o fill) = Len(u) + m
      /\ \A c \in 1..(Len(u) + m) : (u \o fill)[c] = IF c <= Len(u) THEN u[c] ELSE fill[c - Len(u)]
  BY <1>2, ConcatProperties
<1>6. Len(u) + m = LineLen
  BY <1>1 DEF m
<1> DEFINE g == u \o fill
<1>7. /\ g \in Seq(T0) /\ Len(g) = LineLen
      /\ \A c \in 1..LineLen : g[c] = IF c <= Len(u) THEN u[c] ELSE fill[c - Len(u)]
  BY <1>5, <1>6
<1> HIDE DEF g
<1>8. g = [c \in 1..LineLen |-> g[c]]
  BY <1>7
<1>9. \A c \in 1..LineLen : g[c] = IF c <= Len(u) THEN u[c] ELSE Dump!Blank
  <2> TAKE c \in 1..LineLen
  <2>1. CASE ~(c <= Len(u))
    <3>1. c - Len(u) \in 1..m
      BY <1>1, <1>6, <2>1
    <3> QED BY <1>3, <1>7, <2>1, <3>1
  <2> QED BY <1>7, <2>1
<1>10. g = [c \in 1..LineLen |-> IF c <= Len(u) THEN u[c] ELSE Dump!Blank]
  BY <1>8, <1>9
<1> QED BY <1>4, <1>10 DEF g, LineOf

\* What stands for a byte is printable or an underscore.
LEMMA CharacterType ==
    ASSUME NEW o0 \in DumpBytes
    PROVE  Dump!Character(o0) \in DumpText
  BY DEF Dump!Character, DumpText

\* The columns of a line behind m others.
HexRow(u, m) == [c \in 1..LineLen |->
    IF (LineLen * m) + c <= Len(u) THEN u[(LineLen * m) + c] ELSE Dump!Blank]
TextRow(u, m) == [c \in 1..LineLen |->
    IF (LineLen * m) + c <= Len(u) THEN Dump!Character(u[(LineLen * m) + c]) ELSE Dump!Blank]

\* The bytes of a line are those of the buffer in their columns.
LineBytes(u, e, d0) == SubSeq(u, e + 1, e + d0)
LineTexts(bytes, d0) == [c \in 1..d0 |-> Dump!Character(bytes[c])]

\* The line that is printed shows the bytes of its offsets.
LEMMA LineShows ==
    ASSUME Dump!Inputs, NEW u \in Seq(DumpBytes), NEW m \in Nat, NEW d0 \in 1..LineLen,
           NEW e \in Nat, e = LineLen * m,
           e + d0 <= Len(u), d0 = LineLen \/ e + d0 = Len(u),
           NEW bytes, bytes = LineBytes(u, e, d0),
           NEW text, text = LineTexts(bytes, d0)
    PROVE  /\ Dump!Filled(bytes) = HexRow(u, m) /\ Dump!Filled(bytes) \in Seq(DumpHex)
           /\ Dump!Filled(text) = TextRow(u, m) /\ Dump!Filled(text) \in Seq(DumpText)
<1> DEFINE hexes == [c \in 1..LineLen |->
                        IF e + c <= Len(u) THEN u[e + c] ELSE Dump!Blank]
           texts == [c \in 1..LineLen |->
                        IF e + c <= Len(u) THEN Dump!Character(u[e + c]) ELSE Dump!Blank]
<1>1. LineLen \in Nat \ {0} /\ e \in Nat /\ Len(u) \in Nat /\ d0 \in Nat
      /\ 1 <= d0 /\ d0 <= LineLen
  BY DEF Dump!Inputs
<1>0. bytes = SubSeq(u, e + 1, e + d0) /\ text = [c \in 1..d0 |-> Dump!Character(bytes[c])]
  BY DEF LineBytes, LineTexts
<1>2. e + d0 <= Len(u) /\ (d0 = LineLen \/ e + d0 = Len(u))
  OBVIOUS
<1>3. /\ bytes \in Seq(DumpBytes) /\ Len(bytes) = d0
      /\ \A c \in 1..d0 : bytes[c] = u[e + c]
  <2>1. \A k \in (e + 1)..(e + d0) : u[k] \in DumpBytes
    BY <1>1, <1>2
  <2>3. e + 1 <= e + d0 /\ (e + d0) - (e + 1) + 1 = d0
    BY <1>1
  <2> DEFINE first == e + 1
             last == e + d0
             part0 == SubSeq(u, first, last)
  <2>4. first \in Int /\ last \in Int /\ first <= last
        /\ (last - first) + 1 = d0 /\ \A k \in first..last : u[k] \in DumpBytes
    BY <1>1, <2>1, <2>3
  <2> HIDE DEF first, last
  <2>5. /\ part0 \in Seq(DumpBytes)
        /\ Len(part0) = IF first <= last THEN (last - first) + 1 ELSE 0
        /\ \A c \in 1..((last - first) + 1) : part0[c] = u[(first + c) - 1]
    BY <2>4, SubSeqProperties
  <2>7. bytes = part0
    BY <1>0 DEF first, last
  <2> HIDE DEF part0
  <2>6. \A c \in 1..d0 : (first + c) - 1 = e + c
    BY <1>1 DEF first
  <2> QED BY <2>4, <2>5, <2>6, <2>7
<1>4. text \in Seq(DumpText) /\ Len(text) = d0
  <2>1. \A c \in 1..d0 : Dump!Character(bytes[c]) \in DumpText
    BY <1>1, <1>3, CharacterType
  <2>2. text \in [1..d0 -> DumpText]
    BY <1>0, <2>1
  <2> QED BY <1>1, <2>2, SequenceOf
<1>5. \A c \in 1..d0 : text[c] = Dump!Character(u[e + c])
  BY <1>0, <1>3
<1>6. Dump!Filled(bytes) = hexes
  <2>1. Dump!Filled(bytes) = [c \in 1..LineLen |-> IF c <= d0 THEN bytes[c] ELSE Dump!Blank]
    <3>1. bytes \in Seq(DumpBytes) /\ Len(bytes) <= LineLen /\ Len(bytes) = d0
      BY <1>1, <1>3
    <3>2. Dump!Filled(bytes) = LineOf(bytes)
      BY <3>1, FilledIs
    <3> QED BY <3>1, <3>2 DEF LineOf
  <2>2. \A c \in 1..LineLen : (IF c <= d0 THEN bytes[c] ELSE Dump!Blank)
                              = IF e + c <= Len(u) THEN u[e + c] ELSE Dump!Blank
    BY <1>1, <1>2, <1>3
  <2> QED BY <2>1, <2>2
<1>7. Dump!Filled(text) = texts
  <2>1. Dump!Filled(text) = [c \in 1..LineLen |-> IF c <= d0 THEN text[c] ELSE Dump!Blank]
    <3>1. text \in Seq(DumpText) /\ Len(text) <= LineLen /\ Len(text) = d0
      BY <1>1, <1>4
    <3>2. Dump!Filled(text) = LineOf(text)
      BY <3>1, FilledIs
    <3> QED BY <3>1, <3>2 DEF LineOf
  <2>2. \A c \in 1..LineLen : (IF c <= d0 THEN text[c] ELSE Dump!Blank)
                     = IF e + c <= Len(u) THEN Dump!Character(u[e + c]) ELSE Dump!Blank
    BY <1>1, <1>2, <1>5
  <2> QED BY <2>1, <2>2
<1>8. hexes \in Seq(DumpHex) /\ texts \in Seq(DumpText)
  <2>1. ASSUME NEW c \in 1..LineLen, e + c <= Len(u)
        PROVE  u[e + c] \in DumpBytes
    <3>1. e + c \in 1..Len(u)
      BY <1>1, <2>1
    <3> QED BY <3>1
  <2>2. hexes \in [1..LineLen -> DumpHex]
    BY <2>1 DEF DumpHex
  <2>3. Dump!Blank \in DumpText
    BY DEF DumpText
  <2>4. ASSUME NEW c \in 1..LineLen
        PROVE (IF e + c <= Len(u) THEN Dump!Character(u[e + c]) ELSE Dump!Blank) \in DumpText
    BY <2>1, <2>3, CharacterType
  <2>5. texts \in [1..LineLen -> DumpText]
    BY <2>4
  <2> HIDE DEF hexes, texts
  <2> QED BY <1>1, <2>2, <2>5
<1> QED BY <1>6, <1>7, <1>8 DEF HexRow, TextRow

-----------------------------------------------------------------------------
\* How many lines n bytes need, by the number of full ones.
LEMMA LinesNeeded ==
    ASSUME Dump!Inputs, NEW m \in Nat, NEW d0 \in 1..LineLen
    PROVE  ((LineLen * m) + d0 + LineLen - 1) \div LineLen = m + 1
<1>1. LineLen \in Nat \ {0} /\ d0 - 1 \in 0..(LineLen - 1) /\ m + 1 \in Nat
  BY DEF Dump!Inputs
<1>2. ((LineLen * (m + 1)) + (d0 - 1)) \div LineLen = m + 1
  BY <1>1, DivisionUnique
<1>3. LineLen * (m + 1) = (LineLen * m) + LineLen
  BY <1>1
<1> DEFINE e == LineLen * m
<1>4. e \in Nat
  BY <1>1
<1>5. LineLen * (m + 1) = e + LineLen
  BY <1>3
<1> HIDE DEF e
<1>6. ((e + LineLen) + (d0 - 1)) = e + d0 + LineLen - 1
  BY <1>1, <1>4
<1> QED BY <1>2, <1>5, <1>6 DEF e

\* A line joins those before.
LEMMA AppendIs ==
    ASSUME NEW S0, NEW u \in Seq(S0), NEW x \in S0
    PROVE  /\ Append(u, x) \in Seq(S0) /\ Len(Append(u, x)) = Len(u) + 1
           /\ Append(u, x)[Len(u) + 1] = x
           /\ \A l \in 1..Len(u) : Append(u, x)[l] = u[l]
  OBVIOUS

\* One line more,
LEMMA DumpLineStep ==
    ASSUME Dump!Inputs, DumpInv, Dump!PrintLine PROVE DumpInv'
<1> DEFINE u == dCall.buf
           d0 == Dump!LineLength(dLen)
           m == Len(dOut) - 1
           bytes == SubSeq(u, dPos + 1, dPos + d0)
           text == [c \in 1..d0 |-> Dump!Character(bytes[c])]
           new == [kind |-> "line", stamp |-> FALSE,
                   hex |-> Dump!Filled(bytes), text |-> Dump!Filled(text)]
<1>1. /\ dPc = "lines" /\ dLen > 0 /\ dPc' = dPc /\ dCall' = dCall /\ UNCHANGED Dump!settings
      /\ dOut' = Append(dOut, new) /\ dPos' = dPos + d0 /\ dLen' = dLen - d0
  BY DEF Dump!PrintLine
<1>2. /\ u \in Seq(DumpBytes) /\ Len(u) \in Nat /\ Len(u) <= MaxLen /\ dOut \in Seq(DumpRows)
      /\ dLen \in Nat /\ dPos \in Nat /\ LineLen \in Nat \ {0} /\ MaxLen \in Nat
  BY DEF DumpInv, DumpTypes, Dump!Inputs
<1>3. /\ dOut # <<>> /\ Dump!Show(dCall.function)
      /\ dPos + dLen = Len(u) /\ dPos = LineLen * (Len(dOut) - 1)
      /\ \A l \in 2..Len(dOut) : Dump!Shows(l)
  BY <1>1 DEF DumpInv, DumpSoFar
<1>4. Len(dOut) \in Nat \ {0}
  BY <1>2, <1>3
<1>5. m \in Nat /\ dPos = LineLen * m /\ Len(dOut) = m + 1
  BY <1>3, <1>4
<1>6. d0 \in 1..LineLen /\ d0 <= dLen /\ (d0 = LineLen \/ d0 = dLen)
  BY <1>1, <1>2 DEF Dump!LineLength
<1> HIDE DEF u, d0, m
<1>7. /\ Dump!Filled(bytes) = HexRow(u, m) /\ Dump!Filled(bytes) \in Seq(DumpHex)
      /\ Dump!Filled(text) = TextRow(u, m) /\ Dump!Filled(text) \in Seq(DumpText)
  <2> HIDE DEF bytes, text
  <2>1. dPos + d0 <= Len(u) /\ (d0 = LineLen \/ dPos + d0 = Len(u))
    BY <1>2, <1>3, <1>6
  <2>2. bytes = LineBytes(u, dPos, d0)
    BY DEF bytes, LineBytes
  <2>3. text = LineTexts(bytes, d0)
    BY DEF text, LineTexts
  <2> QED BY <1>2, <1>5, <1>6, <2>1, <2>2, <2>3, LineShows
<1> HIDE DEF bytes, text
<1>8. new \in DumpRows
  BY <1>7 DEF DumpRows
<1>9. new = [kind |-> "line", stamp |-> FALSE,
             hex |-> [c \in 1..LineLen |->
                IF (LineLen * m) + c <= Len(u) THEN u[(LineLen * m) + c] ELSE Dump!Blank],
             text |-> [c \in 1..LineLen |->
                IF (LineLen * m) + c <= Len(u) THEN Dump!Character(u[(LineLen * m) + c])
                ELSE Dump!Blank]]
  BY <1>7 DEF HexRow, TextRow
<1> HIDE DEF new
<1>10. /\ dOut' \in Seq(DumpRows) /\ Len(dOut') = m + 2 /\ dOut'[m + 2] = new
       /\ \A l \in 1..Len(dOut) : dOut'[l] = dOut[l]
  <2>1. /\ dOut' \in Seq(DumpRows) /\ Len(dOut') = Len(dOut) + 1
        /\ dOut'[Len(dOut) + 1] = new
        /\ \A l \in 1..Len(dOut) : dOut'[l] = dOut[l]
    BY <1>1, <1>2, <1>8, AppendIs
  <2>2. Len(dOut) + 1 = m + 2
    BY <1>5
  <2> QED BY <2>1, <2>2
<1>11. \A l \in 2..Len(dOut') : Dump!Shows(l)'
  <2> SUFFICES ASSUME NEW l \in 2..Len(dOut') PROVE Dump!Shows(l)'
    OBVIOUS
  <2>1. CASE l = m + 2
    <3>1. l - 2 = m
      BY <1>5, <2>1
    <3>2. \A c \in 1..LineLen : Dump!ByteAt(l, c) = (LineLen * m) + c
      BY <3>1 DEF Dump!ByteAt
    <3>3. dOut'[l] =
            [kind |-> "line", stamp |-> FALSE,
             hex |-> [c \in 1..LineLen |->
                IF Dump!ByteAt(l, c) <= Len(u) THEN u[Dump!ByteAt(l, c)] ELSE Dump!Blank],
             text |-> [c \in 1..LineLen |->
                IF Dump!ByteAt(l, c) <= Len(u) THEN Dump!Character(u[Dump!ByteAt(l, c)])
                ELSE Dump!Blank]]
      BY <1>9, <1>10, <2>1, <3>2
    <3> QED BY <1>1, <3>3 DEF Dump!Shows, u
  <2>2. CASE l # m + 2
    <3>1. l \in 2..Len(dOut) /\ l \in 1..Len(dOut)
      BY <1>5, <1>10, <2>2
    <3>2. Dump!Shows(l) /\ dOut'[l] = dOut[l]
      BY <1>3, <1>10, <3>1
    <3> QED BY <1>1, <3>2 DEF Dump!Shows
  <2> QED BY <2>1, <2>2
<1>12. dPos' \in Nat /\ dLen' \in Nat /\ dPos' + dLen' = Len(u)
  BY <1>1, <1>2, <1>3, <1>6
<1>13. DumpTypes'
  <2>1. dPos' \in 0..MaxLen /\ dLen' \in 0..MaxLen
    BY <1>2, <1>12
  <2> QED BY <1>1, <1>10, <2>1 DEF DumpInv, DumpTypes, Dump!settings
<1>14. dLen' > 0 => dPos' = LineLen * (Len(dOut') - 1)
  <2> HAVE dLen' > 0
  <2>1. d0 = LineLen
    BY <1>1, <1>2, <1>6
  <2>2. LineLen * (m + 1) = (LineLen * m) + LineLen
    BY <1>2, <1>5
  <2>3. Len(dOut') - 1 = m + 1
    BY <1>5, <1>10
  <2> QED BY <1>1, <1>5, <2>1, <2>2, <2>3
<1>15. dLen' = 0 => Len(dOut') = DumpHeight'
  <2> HAVE dLen' = 0
  <2>1. Len(u) = (LineLen * m) + d0
    <3>1. Len(u) = dPos + d0
      <4>1. dLen \in Nat /\ d0 \in Int /\ dLen - d0 = 0
        BY <1>1, <1>2, <1>6
      <4>2. dLen = d0
        BY <4>1
      <4> QED BY <1>3, <4>2
    <3> QED BY <1>5, <3>1
  <2>2. (Len(u) + LineLen - 1) \div LineLen = m + 1
    <3>1. ((LineLen * m) + d0 + LineLen - 1) \div LineLen = m + 1
      BY <1>5, <1>6, LinesNeeded
    <3> QED BY <2>1, <3>1
  <2>3. DumpHeight' = 1 + ((Len(u) + LineLen - 1) \div LineLen)
    BY <1>1 DEF DumpHeight, u
  <2>4. DumpHeight' = 1 + (m + 1)
    BY <2>2, <2>3
  <2> QED BY <1>5, <1>10, <2>4
<1>16. dOut' # <<>>
  BY <1>5, <1>10
<1>17. Dump!Show(dCall.function)'
  BY <1>1, <1>3 DEF Dump!Show, Dump!settings
<1>18. DumpSoFar'
  BY <1>1, <1>11, <1>12, <1>14, <1>15, <1>16, <1>17 DEF DumpSoFar, u
<1>19. DumpHidden'
  BY <1>17 DEF DumpHidden, Dump!Show
<1> QED BY <1>13, <1>18, <1>19 DEF DumpInv

\* and no more when all bytes are shown.
LEMMA DumpDoneStep ==
    ASSUME Dump!Inputs, DumpInv, Dump!AsciiDone PROVE DumpInv'
<1>1. /\ dPc = "lines" /\ dLen = 0 /\ dPc' = "idle"
      /\ UNCHANGED <<Dump!settings, dCall, dPos, dLen, dOut>>
  BY DEF Dump!AsciiDone
<1>2. DumpTypes'
  BY <1>1 DEF DumpInv, DumpTypes, Dump!settings
<1>3. DumpSoFar'
  BY <1>1 DEF DumpInv, DumpSoFar, DumpHeight, Dump!Shows
<1>4. DumpHidden'
  BY <1>1 DEF DumpInv, DumpHidden, Dump!settings
<1> QED BY <1>2, <1>3, <1>4 DEF DumpInv

\* Every step keeps it.
LEMMA DumpStays ==
    ASSUME Dump!Inputs, DumpInv, [Dump!Next]_(Dump!vars) PROVE DumpInv'
<1>1. CASE UNCHANGED Dump!vars
  BY <1>1 DEF DumpInv, DumpTypes, DumpSoFar, DumpHidden, DumpHeight, Dump!Shows, Dump!Show,
     Dump!vars, Dump!settings
<1>2. CASE \E f0 \in Dump!Dumps, v0 \in Levels :
             Dump!Dump(f0, v0, TRUE, <<>>)
             \/ \E u \in Dump!Buffers : Dump!Dump(f0, v0, FALSE, u)
  <2> PICK f0 \in Dump!Dumps, v0 \in Levels :
             Dump!Dump(f0, v0, TRUE, <<>>)
             \/ \E u \in Dump!Buffers : Dump!Dump(f0, v0, FALSE, u)
    BY <1>2
  <2>1. CASE Dump!Dump(f0, v0, TRUE, <<>>)
    <3>1. <<>> \in Seq(DumpBytes) /\ Len(<<>>) <= MaxLen
      BY DEF Dump!Inputs
    <3> QED BY <2>1, <3>1, DumpCallStep
  <2>2. ASSUME NEW u \in Dump!Buffers, Dump!Dump(f0, v0, FALSE, u) PROVE DumpInv'
    <3>1. u \in Seq(DumpBytes) /\ Len(u) <= MaxLen
      BY BuffersAre
    <3> QED BY <2>2, <3>1, DumpCallStep
  <2> QED BY <2>1, <2>2
<1>3. CASE Dump!Configure \/ \E v0 \in Levels : Dump!Printf(v0)
  BY <1>3, DumpQuietStep
<1>4. CASE Dump!PrintLine
  BY <1>4, DumpLineStep
<1>5. CASE Dump!AsciiDone
  BY <1>5, DumpDoneStep
<1> QED BY <1>1, <1>2, <1>3, <1>4, <1>5 DEF Dump!Next

\* What the invariant gives.
LEMMA DumpSaid ==
    ASSUME DumpInv PROVE Dump!DumpIsWhole /\ Dump!KeysHidden
<1>1. Dump!DumpIsWhole
  BY DEF DumpInv, DumpSoFar, DumpHeight, Dump!DumpIsWhole
<1>2. Dump!KeysHidden
  <2> SUFFICES ASSUME Dump!IsKey(dCall.function), ~aes_debug_show_keys, NEW l \in 1..Len(dOut)
               PROVE  dOut[l].hex = <<>> /\ dOut[l].text = <<>>
    BY DEF Dump!KeysHidden
  <2>1. dOut \in Seq(DumpRows) /\ Len(dOut) <= 1
    BY DEF DumpInv, DumpTypes, DumpHidden
  <2>2. l = 1 /\ dOut # <<>>
    BY <2>1
  <2> QED BY <2>2 DEF DumpInv, DumpHidden
<1> QED BY <1>1, <1>2

-----------------------------------------------------------------------------
\* What holds at the beginning and of the next with the one before holds as far as n.
LEMMA Climbs ==
    ASSUME NEW n, n \in Nat, NEW U, 0 \in U, \A k \in 1..n : k - 1 \in U => k \in U
    PROVE  \A k \in 0..n : k \in U
<1> DEFINE V == (0..n) \ U
<1>1. SUFFICES ASSUME V # {} PROVE FALSE
  OBVIOUS
<1>2. V \subseteq Nat
  OBVIOUS
<1>3. PICK m \in V : \A k \in V : m <= k
  BY <1>1, <1>2, LeastElement
<1>4. m \in 0..n /\ ~(m \in U) /\ m # 0
  OBVIOUS
<1>5. m \in 1..n /\ m - 1 \in 0..n /\ ~(m <= m - 1)
  BY <1>4
<1>6. ~(m - 1 \in V)
  BY <1>3, <1>5
<1> QED BY <1>4, <1>5, <1>6

\* The weight of a byte in a number.
IsWeight(h) ==
    h \in [0..8 -> Nat] /\ h[0] = 1 /\ \A k \in 1..8 : h[k] = Base * h[k - 1]

\* The weights, by the one before.
LEMMA WeightIs ==
    ASSUME Order!Inputs
    PROVE  \E h : IsWeight(h) /\ \A k \in 0..8 : Order!Weight[k] = h[k]
<1>0. Base \in Nat \ {0}
  BY DEF Order!Inputs
<1> DEFINE g == [x \in (1..8) \X Nat |-> Base * x[2]]
<1>1. g \in [(1..8) \X Nat -> Nat]
  <2>1. ASSUME NEW x \in (1..8) \X Nat PROVE Base * x[2] \in Nat
    <3>1. x[2] \in Nat
      OBVIOUS
    <3> QED BY <1>0, <3>1
  <2> QED BY <2>1
<1>2. \A k \in 1..8, y \in Nat : g[<<k, y>>] = Base * y
  OBVIOUS
<1> HIDE DEF g
<1>3. PICK h : h \in [0..8 -> Nat] /\ h[0] = 1 /\ \A k \in 1..8 : h[k] = g[<<k, h[k - 1]>>]
  <2>1. 8 \in Nat /\ 1 \in Nat
    OBVIOUS
  <2>2. PICK h : Iterates(h, g, 8, 1)
    BY <1>1, <2>1, Iterated
  <2> QED BY <2>2 DEF Iterates
<1>4. \A k \in 1..8 : k - 1 \in 0..8 /\ h[k - 1] \in Nat
  BY <1>3
<1>5. \A k \in 1..8 : h[k] = Base * h[k - 1]
  BY <1>2, <1>3, <1>4
<1> DEFINE F(f) == [k \in 0..8 |-> IF k = 0 THEN 1 ELSE Base * f[k - 1]]
           power == CHOOSE f : f = F(f)
<1>6. h = F(h)
  <2> DEFINE D == 0..8
  <2>1. \A k \in D : h[k] = IF k = 0 THEN 1 ELSE Base * h[k - 1]
    BY <1>3, <1>5
  <2>2. h = [k \in D |-> h[k]]
    BY <1>3
  <2> HIDE DEF D
  <2>3. h = [k \in D |-> IF k = 0 THEN 1 ELSE Base * h[k - 1]]
    BY <2>1, <2>2
  <2> QED BY <2>3 DEF D
<1>7. power = F(power)
  BY <1>6
<1>8. Order!Weight = power
  BY DEF Order!Weight
<1> HIDE DEF power
<1>9. power[0] = 1 /\ \A k \in 1..8 : power[k] = Base * power[k - 1]
  BY <1>7
<1>10. \A k \in 0..8 : power[k] = h[k]
  <2> DEFINE U == {k \in 0..8 : power[k] = h[k]}
  <2>1. 0 \in U
    BY <1>3, <1>9
  <2>2. \A k \in 1..8 : k - 1 \in U => k \in U
    BY <1>5, <1>9
  <2>3. 8 \in Nat
    OBVIOUS
  <2> HIDE DEF U
  <2>4. \A k \in 0..8 : k \in U
    BY <2>1, <2>2, <2>3, Climbs
  <2> QED BY <2>4 DEF U
<1> QED BY <1>3, <1>5, <1>8, <1>10 DEF IsWeight

\* Each is Base times the one before,
LEMMA WeightStep ==
    ASSUME Order!Inputs, NEW k, k \in 0..7
    PROVE  /\ Order!Weight[0] = 1
           /\ Order!Weight[k] \in Nat /\ Order!Weight[k + 1] \in Nat
           /\ Order!Weight[k + 1] = Base * Order!Weight[k]
<1>1. PICK h : IsWeight(h) /\ \A m \in 0..8 : Order!Weight[m] = h[m]
  BY WeightIs
<1>2. k \in 0..8 /\ k + 1 \in 1..8 /\ (k + 1) - 1 = k /\ k + 1 \in 0..8
  OBVIOUS
<1>3. h[k + 1] = Base * h[(k + 1) - 1]
  BY <1>1, <1>2 DEF IsWeight
<1> QED BY <1>1, <1>2, <1>3 DEF IsWeight

\* and none is zero.
LEMMA WeightPositive ==
    ASSUME Order!Inputs
    PROVE  \A k \in 0..8 : Order!Weight[k] \in Nat \ {0}
<1> DEFINE U == {k \in 0..8 : Order!Weight[k] \in Nat \ {0}}
<1>1. 0 \in U
  <2>1. 0 \in 0..7 /\ 0 \in 0..8
    OBVIOUS
  <2>2. Order!Weight[0] = 1
    BY <2>1, WeightStep
  <2> QED BY <2>1, <2>2
<1>2. ASSUME NEW k \in 1..8, k - 1 \in U PROVE k \in U
  <2>1. k - 1 \in 0..7 /\ (k - 1) + 1 = k
    BY <1>2
  <2>2. Order!Weight[k] = Base * Order!Weight[k - 1]
    BY <2>1, WeightStep
  <2> DEFINE e == Order!Weight[k - 1]
  <2>3. e \in Nat \ {0} /\ Base \in Nat \ {0}
    BY <1>2 DEF Order!Inputs
  <2> HIDE DEF e
  <2>4. Base * e \in Nat \ {0}
    BY <2>3
  <2> QED BY <2>2, <2>4 DEF e
<1>3. 8 \in Nat
  OBVIOUS
<1> HIDE DEF U
<1>4. \A k \in 0..8 : k \in U
  BY <1>1, <1>2, <1>3, Climbs
<1> QED BY <1>4 DEF U

\* A value and what its bytes add up to.
IsJoined(h, d, m) ==
    /\ h \in [0..m -> Nat] /\ h[0] = 0
    /\ \A k \in 1..m : h[k] = h[k - 1] + (d[k - 1] * Order!Weight[k - 1])

\* The value of bytes, byte by byte.
LEMMA JoinedIs ==
    ASSUME Order!Inputs, NEW m, m \in 1..8, NEW d, d \in [0..(m - 1) -> Nat]
    PROVE  \E h : IsJoined(h, d, m) /\ Order!Joined(d, m) = h[m]
<1> DEFINE g == [x \in (1..m) \X Nat |-> x[2] + (d[x[1] - 1] * Order!Weight[x[1] - 1])]
<1>0. m \in Nat
  OBVIOUS
<1>1. g \in [(1..m) \X Nat -> Nat]
  <2>1. ASSUME NEW x \in (1..m) \X Nat
        PROVE  x[2] + (d[x[1] - 1] * Order!Weight[x[1] - 1]) \in Nat
    <3>1. x[2] \in Nat /\ x[1] \in 1..m
      OBVIOUS
    <3>5. \A p \in 1..m : p - 1 \in 0..(m - 1) /\ p - 1 \in 0..8
      OBVIOUS
    <3>2. x[1] - 1 \in 0..(m - 1) /\ x[1] - 1 \in 0..8
      BY <3>1, <3>5
    <3>3. d[x[1] - 1] \in Nat /\ Order!Weight[x[1] - 1] \in Nat
      BY <3>2, WeightPositive
    <3>4. d[x[1] - 1] * Order!Weight[x[1] - 1] \in Nat
      BY <3>3
    <3> QED BY <3>1, <3>4
  <2> QED BY <2>1
<1>2. \A k \in 1..m, y \in Nat : g[<<k, y>>] = y + (d[k - 1] * Order!Weight[k - 1])
  OBVIOUS
<1> HIDE DEF g
<1>3. PICK h : h \in [0..m -> Nat] /\ h[0] = 0 /\ \A k \in 1..m : h[k] = g[<<k, h[k - 1]>>]
  <2>1. 0 \in Nat
    OBVIOUS
  <2>2. PICK h : Iterates(h, g, m, 0)
    BY <1>0, <1>1, <2>1, Iterated
  <2> QED BY <2>2 DEF Iterates
<1>4. \A k \in 1..m : k - 1 \in 0..m /\ h[k - 1] \in Nat
  BY <1>3
<1>5. \A k \in 1..m : h[k] = h[k - 1] + (d[k - 1] * Order!Weight[k - 1])
  BY <1>2, <1>3, <1>4
<1> DEFINE F(f) == [k \in 0..m |->
                      IF k = 0 THEN 0 ELSE f[k - 1] + (d[k - 1] * Order!Weight[k - 1])]
           sum == CHOOSE f : f = F(f)
<1>6. h = F(h)
  <2> DEFINE D == 0..m
  <2>1. \A k \in D : h[k] = IF k = 0 THEN 0 ELSE h[k - 1] + (d[k - 1] * Order!Weight[k - 1])
    BY <1>3, <1>5
  <2>2. h = [k \in D |-> h[k]]
    BY <1>3
  <2> HIDE DEF D
  <2>3. h = [k \in D |->
               IF k = 0 THEN 0 ELSE h[k - 1] + (d[k - 1] * Order!Weight[k - 1])]
    BY <2>1, <2>2
  <2> QED BY <2>3 DEF D
<1>7. sum = F(sum)
  BY <1>6
<1>8. Order!Joined(d, m) = sum[m]
  BY DEF Order!Joined
<1> HIDE DEF sum
<1>9. sum[0] = 0 /\ \A k \in 1..m : sum[k] = sum[k - 1] + (d[k - 1] * Order!Weight[k - 1])
  BY <1>7
<1>10. \A k \in 0..m : sum[k] = h[k]
  <2> DEFINE U == {k \in 0..m : sum[k] = h[k]}
  <2>1. 0 \in U
    <3>1. 0 \in 0..m
      BY <1>0
    <3>2. sum[0] = h[0]
      BY <1>3, <1>9
    <3> QED BY <3>1, <3>2
  <2>2. \A k \in 1..m : k - 1 \in U => k \in U
    <3>1. ASSUME NEW k \in 1..m, sum[k - 1] = h[k - 1]
          PROVE  sum[k] = h[k]
      BY <1>5, <1>9, <3>1
    <3>2. \A k \in 1..m : k \in 0..m
      BY <1>0
    <3> QED BY <3>1, <3>2
  <2> HIDE DEF U
  <2>3. \A k \in 0..m : k \in U
    BY <1>0, <2>1, <2>2, Climbs
  <2> QED BY <2>3 DEF U
<1>11. sum[m] = h[m]
  BY <1>10
<1> QED BY <1>3, <1>5, <1>8, <1>11 DEF IsJoined

-----------------------------------------------------------------------------
\* Bytes, and the values they are joined to.
OctetVals == 0..(Base - 1)
Octets(m) == [0..(m - 1) -> OctetVals]

\* One byte more in front of a value: what is below it stays, and the byte is there.
LEMMA OctetOnTop ==
    ASSUME Order!Inputs, NEW k, k \in 0..7, NEW y, y \in 0..(Order!Weight[k] - 1),
           NEW o0, o0 \in OctetVals, NEW z, z = y + (o0 * Order!Weight[k])
    PROVE  z \in 0..(Order!Weight[k + 1] - 1) /\ Order!PutByte(z, k) = o0
<1> DEFINE W == Order!Weight[k]
           e == W * o0
<1>1. W \in Nat \ {0} /\ Base \in Nat \ {0, 1} /\ Order!Weight[k + 1] = Base * W
  <2>1. k \in 0..8
    OBVIOUS
  <2> QED BY <2>1, WeightPositive, WeightStep DEF Order!Inputs
<1>2. y \in 0..(W - 1) /\ o0 \in 0..(Base - 1) /\ o0 \in Nat
  BY <1>1 DEF OctetVals
<1> HIDE DEF W
<1>3. e \in Nat /\ o0 * W = e
  BY <1>1, <1>2
<1>4. z = e + y
  <2>1. z = y + (o0 * W)
    BY DEF W
  <2>2. y \in Nat
    BY <1>1, <1>2
  <2> HIDE DEF e
  <2> QED BY <1>3, <2>1, <2>2
<1>5. z \div W = o0
  BY SMTT(30), <1>1, <1>2, <1>4, DivisionUnique
<1>6. o0 % Base = o0
  <2>1. (Base * 0) + o0 = o0
    BY <1>1, <1>2
  <2>2. ((Base * 0) + o0) % Base = o0
    BY <1>1, <1>2, DivisionUnique
  <2> QED BY <2>1, <2>2
<1>7. z < Base * W
  <2>1. e + W = W * (o0 + 1)
    BY <1>1, <1>2
  <2>2. W * (o0 + 1) <= W * Base
    <3>1. o0 + 1 <= Base /\ o0 + 1 \in Nat
      BY <1>1, <1>2
    <3> QED BY <1>1, <3>1
  <2>3. W * Base = Base * W
    BY <1>1
  <2> DEFINE a1 == W * (o0 + 1)  a2 == Base * W
  <2>4. a1 <= a2 /\ e + W = a1 /\ a1 \in Nat /\ a2 \in Nat
    BY <1>1, <1>2, <2>1, <2>2, <2>3
  <2> HIDE DEF e, a1, a2
  <2>5. z < a2
    BY <1>1, <1>2, <1>3, <1>4, <2>4
  <2> QED BY <2>5 DEF a2
<1>8. z \in Nat
  <2> HIDE DEF e
  <2> QED BY <1>1, <1>2, <1>3, <1>4
<1>9. Base * W \in Nat
  BY <1>1
<1>10. z \in 0..(Order!Weight[k + 1] - 1)
  <2> DEFINE a2 == Base * W
  <2>1. z < a2 /\ a2 \in Nat /\ Order!Weight[k + 1] = a2
    BY <1>1, <1>7, <1>9
  <2> HIDE DEF a2
  <2> QED BY <1>8, <2>1
<1> QED BY <1>5, <1>6, <1>10 DEF Order!PutByte, W

\* A lower byte is a byte of what is below.
LEMMA OctetBelow ==
    ASSUME Order!Inputs, NEW k, k \in 0..7, NEW p, p \in 0..(k - 1),
           NEW y, y \in Nat, NEW t0, t0 \in Nat, NEW z, z = y + (t0 * Order!Weight[k])
    PROVE  Order!PutByte(z, p) = Order!PutByte(y, p)
<1>1. Base \in Nat \ {0, 1}
  BY DEF Order!Inputs
\* the weight of k is a multiple of that of p + 1
<1>2. \A q \in 0..8 : q >= p + 1 => \E v0 \in Nat : Order!Weight[q] = Order!Weight[p + 1] * v0
  <2> DEFINE U == {q \in 0..8 : q >= p + 1 =>
                     \E v0 \in Nat : Order!Weight[q] = Order!Weight[p + 1] * v0}
  <2>1. 0 \in U
    OBVIOUS
  <2>2. ASSUME NEW q \in 1..8, q - 1 \in U PROVE q \in U
    <3>1. p + 1 \in 0..8 /\ q \in 0..8 /\ q - 1 \in 0..7 /\ (q - 1) + 1 = q
      OBVIOUS
    <3>2. Order!Weight[p + 1] \in Nat
      BY <3>1, WeightPositive
    <3>3. CASE q = p + 1
      <4>1. Order!Weight[q] = Order!Weight[p + 1] * 1
        BY <3>2, <3>3
      <4> QED BY <3>1, <4>1
    <3>4. CASE q > p + 1
      <4>1. PICK v0 \in Nat : Order!Weight[q - 1] = Order!Weight[p + 1] * v0
        BY <2>2, <3>1, <3>4
      <4>2. Order!Weight[q] = Base * Order!Weight[q - 1]
        BY <3>1, WeightStep
      <4> DEFINE a1 == Order!Weight[p + 1]
      <4>3. a1 \in Nat /\ Order!Weight[q] = Base * (a1 * v0)
        BY <3>2, <4>1, <4>2
      <4> HIDE DEF a1
      <4>4. Base * (a1 * v0) = a1 * (Base * v0) /\ Base * v0 \in Nat
        BY <1>1, <4>3
      <4> QED BY <3>1, <4>3, <4>4 DEF a1
    <3>5. CASE q < p + 1
      BY <3>1, <3>5
    <3> QED BY <3>1, <3>3, <3>4, <3>5
  <2>3. 8 \in Nat
    OBVIOUS
  <2> HIDE DEF U
  <2>4. \A q \in 0..8 : q \in U
    BY <2>1, <2>2, <2>3, Climbs
  <2> QED BY <2>4 DEF U
<1>3. k \in 0..8 /\ k >= p + 1 /\ p \in 0..7 /\ p \in 0..8
  OBVIOUS
<1>4. PICK v0 \in Nat : Order!Weight[k] = Order!Weight[p + 1] * v0
  BY <1>2, <1>3
<1> DEFINE W == Order!Weight[p]
<1>5. W \in Nat \ {0} /\ Order!Weight[p + 1] = Base * W
  BY <1>3, WeightPositive, WeightStep
<1> DEFINE q == y \div W
           r0 == y % W
           u == t0 * v0
<1>6. q \in Nat /\ r0 \in 0..(W - 1) /\ y = (W * q) + r0
  BY <1>5, DivisionIs
<1>7. u \in Nat
  BY <1>4
<1>8. t0 * Order!Weight[k] = W * (Base * u)
  <2>1. t0 * Order!Weight[k] = t0 * ((Base * W) * v0)
    BY <1>4, <1>5
  <2> HIDE DEF W
  <2>2. t0 * ((Base * W) * v0) = W * (Base * (t0 * v0))
    BY <1>1, <1>5
  <2> QED BY <2>1, <2>2
<1> HIDE DEF q, r0, u, W
<1> DEFINE e == Base * u
           w0 == q + e
<1>9. e \in Nat
  BY <1>1, <1>7
<1>10. z = (W * w0) + r0
  <2>1. z = ((W * q) + r0) + (W * e)
    BY <1>6, <1>8
  <2> HIDE DEF e
  <2>2. W * (q + e) = (W * q) + (W * e)
    BY <1>5, <1>6, <1>9
  <2> DEFINE a1 == W * q  a2 == W * e
  <2>3. a1 \in Nat /\ a2 \in Nat
    BY <1>5, <1>6, <1>9
  <2>4. z = (a1 + r0) + a2 /\ W * (q + e) = a1 + a2
    BY <2>1, <2>2
  <2> HIDE DEF a1, a2
  <2>5. r0 \in Nat
    BY <1>5, <1>6
  <2> QED BY <2>3, <2>4, <2>5
<1>11. w0 \in Nat
  <2> HIDE DEF e
  <2> QED BY <1>6, <1>9
<1> HIDE DEF w0
<1>12. z \div W = w0
  BY <1>5, <1>6, <1>10, <1>11, DivisionUnique
<1>13. w0 % Base = q % Base
  <2> DEFINE q2 == q \div Base
             r2 == q % Base
  <2>1. q2 \in Nat /\ r2 \in 0..(Base - 1) /\ q = (Base * q2) + r2
    BY <1>1, <1>6, DivisionIs
  <2> HIDE DEF q2, r2
  <2>2. w0 = (Base * (q2 + u)) + r2
    <3>1. w0 = ((Base * q2) + r2) + (Base * u)
      BY <2>1 DEF w0
    <3>2. Base * (q2 + u) = (Base * q2) + (Base * u)
      BY <1>1, <1>7, <2>1
    <3> DEFINE a1 == Base * q2  a2 == Base * u
    <3>3. a1 \in Nat /\ a2 \in Nat /\ r2 \in Nat
      BY <1>1, <1>7, <2>1
    <3>4. w0 = (a1 + r2) + a2 /\ Base * (q2 + u) = a1 + a2
      BY <3>1, <3>2
    <3> HIDE DEF a1, a2
    <3> QED BY <3>3, <3>4
  <2>3. q2 + u \in Nat
    BY <1>7, <2>1
  <2>4. w0 % Base = r2
    BY <1>1, <2>1, <2>2, <2>3, DivisionUnique
  <2> QED BY <2>4 DEF r2
<1> QED BY <1>12, <1>13 DEF Order!PutByte, W, q

-----------------------------------------------------------------------------
\* The bytes of a value are those it was joined of.
LEMMA JoinedBytes ==
    ASSUME Order!Inputs, NEW m, m \in 1..8, NEW d, d \in Octets(m)
    PROVE  /\ Order!Joined(d, m) \in Nat
           /\ \A p \in 0..(m - 1) : Order!PutByte(Order!Joined(d, m), p) = d[p]
<1>0. m \in Nat /\ Base \in Nat \ {0, 1}
  BY DEF Order!Inputs
<1>1. d \in [0..(m - 1) -> Nat] /\ \A p \in 0..(m - 1) : d[p] \in OctetVals
  BY <1>0 DEF Octets, OctetVals
<1>2. PICK h : IsJoined(h, d, m) /\ Order!Joined(d, m) = h[m]
  BY <1>1, JoinedIs
<1>3. h \in [0..m -> Nat] /\ h[0] = 0
      /\ \A k \in 1..m : h[k] = h[k - 1] + (d[k - 1] * Order!Weight[k - 1])
  BY <1>2 DEF IsJoined
<1> DEFINE U == {k \in 0..m : /\ h[k] \in 0..(Order!Weight[k] - 1)
                              /\ \A p \in 0..(k - 1) : Order!PutByte(h[k], p) = d[p]}
<1>4. 0 \in U
  <2>1. Order!Weight[0] = 1
    <3>1. 0 \in 0..7
      OBVIOUS
    <3> QED BY <3>1, WeightStep
  <2> QED BY <1>0, <1>3, <2>1
<1>5. ASSUME NEW k \in 1..m, k - 1 \in U PROVE k \in U
  <2>1. k - 1 \in 0..7 /\ k - 1 \in 0..(m - 1) /\ k - 1 \in 0..m /\ (k - 1) + 1 = k /\ k \in 0..m
    OBVIOUS
  <2>2. /\ h[k - 1] \in 0..(Order!Weight[k - 1] - 1) /\ h[k - 1] \in Nat
        /\ \A p \in 0..((k - 1) - 1) : Order!PutByte(h[k - 1], p) = d[p]
    BY <1>3, <1>5, <2>1
  <2>3. d[k - 1] \in OctetVals /\ d[k - 1] \in Nat
    BY <1>1, <2>1
  <2>4. h[k] = h[k - 1] + (d[k - 1] * Order!Weight[k - 1])
    BY <1>3
  <2> DEFINE y == h[k - 1]
             z == h[k]
             o0 == d[k - 1]
             l == k - 1
  <2>5. z \in 0..(Order!Weight[l + 1] - 1) /\ Order!PutByte(z, l) = o0
    <3>1. /\ l \in 0..7 /\ y \in 0..(Order!Weight[l] - 1) /\ o0 \in OctetVals
          /\ z = y + (o0 * Order!Weight[l])
      BY <2>1, <2>2, <2>3, <2>4
    <3> HIDE DEF y, z, o0, l
    <3> QED BY <3>1, OctetOnTop
  <2>6. ASSUME NEW p \in 0..(l - 1) PROVE Order!PutByte(z, p) = Order!PutByte(y, p)
    <3>1. l \in 0..7 /\ y \in Nat /\ o0 \in Nat /\ z = y + (o0 * Order!Weight[l])
      BY <2>1, <2>2, <2>3, <2>4
    <3> HIDE DEF y, z, o0, l
    <3> QED BY <3>1, OctetBelow
  <2>7. \A p \in 0..(k - 1) : p = l \/ p \in 0..(l - 1)
    OBVIOUS
  <2>8. \A p \in 0..(k - 1) : Order!PutByte(h[k], p) = d[p]
    BY <2>2, <2>5, <2>6, <2>7
  <2>9. h[k] \in 0..(Order!Weight[k] - 1)
    BY <2>1, <2>5
  <2> QED BY <2>1, <2>8, <2>9
<1> HIDE DEF U
<1>6. \A k \in 0..m : k \in U
  BY <1>0, <1>4, <1>5, Climbs
<1>7. m \in U /\ m \in 0..m
  BY <1>0, <1>6
<1>8. h[m] \in Nat /\ \A p \in 0..(m - 1) : Order!PutByte(h[m], p) = d[p]
  BY <1>3, <1>7 DEF U
<1> QED BY <1>2, <1>8

\* With one byte more of a value.
LEMMA RestGrows ==
    ASSUME Order!Inputs, NEW k, k \in 0..7, NEW x, x \in Nat
    PROVE  x % Order!Weight[k + 1]
               = (x % Order!Weight[k]) + (Order!PutByte(x, k) * Order!Weight[k])
<1> DEFINE W == Order!Weight[k]
<1>1. W \in Nat \ {0} /\ Base \in Nat \ {0, 1} /\ Order!Weight[k + 1] = Base * W
  <2>1. k \in 0..8
    OBVIOUS
  <2> QED BY <2>1, WeightPositive, WeightStep DEF Order!Inputs
<1> HIDE DEF W
<1> DEFINE q == x \div W
           r0 == x % W
           q2 == q \div Base
           r2 == q % Base
<1>2. q \in Nat /\ r0 \in 0..(W - 1) /\ x = (W * q) + r0
  BY <1>1, DivisionIs
<1>3. q2 \in Nat /\ r2 \in 0..(Base - 1) /\ q = (Base * q2) + r2
  <2> HIDE DEF q
  <2> QED BY <1>1, <1>2, DivisionIs
<1>4. Order!PutByte(x, k) = r2
  BY DEF Order!PutByte, W
<1> HIDE DEF q, r0, q2, r2
<1> DEFINE z == r0 + (r2 * W)
<1>5. z \in 0..(Order!Weight[k + 1] - 1)
  <2>1. r0 \in 0..(Order!Weight[k] - 1) /\ r2 \in OctetVals /\ z = r0 + (r2 * Order!Weight[k])
    BY <1>2, <1>3 DEF W, OctetVals
  <2> HIDE DEF z
  <2> QED BY <2>1, OctetOnTop
<1>6. x = ((Base * W) * q2) + z
  <2>1. W * q = (W * (Base * q2)) + (W * r2)
    <3>1. Base * q2 \in Nat /\ r2 \in Nat
      BY <1>1, <1>3
    <3> DEFINE e == Base * q2
    <3>2. q = e + r2 /\ e \in Nat
      BY <1>3, <3>1
    <3> HIDE DEF e
    <3>3. W * q = (W * e) + (W * r2)
      BY <1>1, <3>1, <3>2
    <3> QED BY <3>3 DEF e
  <2>2. W * (Base * q2) = (Base * W) * q2 /\ W * r2 = r2 * W
    BY <1>1, <1>3
  <2> DEFINE a1 == (Base * W) * q2  a2 == r2 * W
  <2>3. a1 \in Nat /\ a2 \in Nat
    BY <1>1, <1>3
  <2>4. x = (a1 + a2) + r0 /\ z = r0 + a2
    BY <1>2, <2>1, <2>2
  <2> HIDE DEF a1, a2, z
  <2>5. r0 \in Nat
    BY <1>1, <1>2
  <2>6. x = a1 + z
    BY <2>3, <2>4, <2>5
  <2> QED BY <2>6 DEF a1
<1> HIDE DEF z
<1> DEFINE V == Order!Weight[k + 1]
<1>7. V \in Nat \ {0} /\ V = Base * W
  <2>1. k + 1 \in 0..8
    OBVIOUS
  <2> QED BY <1>1, <2>1, WeightPositive
<1>8. x = (V * q2) + z /\ z \in 0..(V - 1)
  BY <1>5, <1>6, <1>7
<1> HIDE DEF V
<1>9. x % V = z
  BY <1>3, <1>7, <1>8, DivisionUnique
<1> QED BY <1>4, <1>9 DEF V, z, W, r0

\* The bytes of a value, as many as there is room for, joined again.
LEMMA JoinedValue ==
    ASSUME Order!Inputs, NEW m, m \in 1..8, NEW x, x \in Nat,
           NEW d, d \in Octets(m), \A k \in 0..(m - 1) : d[k] = Order!PutByte(x, k)
    PROVE  Order!Joined(d, m) = x % Order!Weight[m]
<1>0. m \in Nat /\ Base \in Nat \ {0, 1}
  BY DEF Order!Inputs
<1>1. d \in [0..(m - 1) -> Nat]
  BY <1>0 DEF Octets, OctetVals
<1>2. PICK h : IsJoined(h, d, m) /\ Order!Joined(d, m) = h[m]
  BY <1>1, JoinedIs
<1>3. h \in [0..m -> Nat] /\ h[0] = 0
      /\ \A k \in 1..m : h[k] = h[k - 1] + (d[k - 1] * Order!Weight[k - 1])
  BY <1>2 DEF IsJoined
<1> DEFINE U == {k \in 0..m : h[k] = x % Order!Weight[k]}
<1>4. 0 \in U
  <2>1. Order!Weight[0] = 1
    <3>1. 0 \in 0..7
      OBVIOUS
    <3> QED BY <3>1, WeightStep
  <2>2. x % 1 = 0
    OBVIOUS
  <2> QED BY <1>0, <1>3, <2>1, <2>2
<1>5. ASSUME NEW k \in 1..m, k - 1 \in U PROVE k \in U
  <2>1. k - 1 \in 0..7 /\ k - 1 \in 0..(m - 1) /\ (k - 1) + 1 = k /\ k \in 0..m
    OBVIOUS
  <2>2. h[k] = h[k - 1] + (Order!PutByte(x, k - 1) * Order!Weight[k - 1])
    BY <1>3, <2>1
  <2>3. x % Order!Weight[k]
          = (x % Order!Weight[k - 1]) + (Order!PutByte(x, k - 1) * Order!Weight[k - 1])
    BY <2>1, RestGrows
  <2>4. h[k - 1] = x % Order!Weight[k - 1]
    BY <1>5
  <2> QED BY <2>1, <2>2, <2>3, <2>4
<1> HIDE DEF U
<1>6. \A k \in 0..m : k \in U
  BY <1>0, <1>4, <1>5, Climbs
<1>7. m \in U
  BY <1>0, <1>6
<1> QED BY <1>2, <1>7 DEF U

-----------------------------------------------------------------------------
\* The bytes that are read of a value, each by the bytes below it.
OctetsRead(u, o0) == [k \in 0..(Len(u) - 1) |-> u[Order!GetPlace(Len(u), o0, k)]]
OctetsSwapped(x, m) == [k \in 0..(m - 1) |-> Order!PutByte(x, Order!SwapFrom(m, k))]

\* A byte of a value is a byte.
LEMMA OctetType ==
    ASSUME Order!Inputs, NEW x \in Nat, NEW k \in 0..8
    PROVE  Order!PutByte(x, k) \in OctetVals
<1>1. Order!Weight[k] \in Nat \ {0} /\ Base \in Nat \ {0}
  BY WeightPositive DEF Order!Inputs
<1> DEFINE q == x \div Order!Weight[k]
<1>2. q \in Nat
  BY <1>1, DivisionIs
<1>3. Order!PutByte(x, k) = q % Base
  BY DEF Order!PutByte
<1> HIDE DEF q
<1> QED BY <1>1, <1>2, <1>3, DivisionIs DEF OctetVals

\* What is read is joined of the bytes in the order asked for,
LEMMA GetIs ==
    ASSUME Order!Inputs, NEW m, m \in 1..8, NEW u, u \in [1..m -> OctetVals],
           NEW o0, o0 \in {"be", "le"}
    PROVE  /\ OctetsRead(u, o0) \in Octets(m)
           /\ Order!Get(u, o0) = Order!Joined(OctetsRead(u, o0), m)
           /\ \A k \in 0..(m - 1) : OctetsRead(u, o0)[k] = u[IF o0 = "be" THEN m - k ELSE k + 1]
<1>1. m \in Nat /\ Len(u) = m
  OBVIOUS
<1>2. \A k \in 0..(m - 1) : Order!GetPlace(m, o0, k) \in 1..m
                         /\ Order!GetPlace(m, o0, k) = IF o0 = "be" THEN m - k ELSE k + 1
  BY DEF Order!GetPlace
<1>3. OctetsRead(u, o0) = [k \in 0..(m - 1) |-> u[Order!GetPlace(m, o0, k)]]
  BY <1>1 DEF OctetsRead
<1>4. OctetsRead(u, o0) \in Octets(m)
  BY <1>2, <1>3 DEF Octets
<1>5. Order!Get(u, o0) = Order!Joined(OctetsRead(u, o0), m)
  BY <1>1 DEF Order!Get, OctetsRead
<1> QED BY <1>2, <1>3, <1>4, <1>5

\* and what is swapped of those of the value in reverse.
LEMMA SwapIs ==
    ASSUME Order!Inputs, NEW m, m \in 1..8, NEW x, x \in Nat
    PROVE  /\ OctetsSwapped(x, m) \in Octets(m)
           /\ Order!Bswap(x, m) = Order!Joined(OctetsSwapped(x, m), m)
           /\ \A k \in 0..(m - 1) : OctetsSwapped(x, m)[k] = Order!PutByte(x, (m - 1) - k)
<1>1. \A k \in 0..(m - 1) : (m - 1) - k \in 0..8 /\ Order!SwapFrom(m, k) = (m - 1) - k
  BY DEF Order!SwapFrom
<1>2. \A k \in 0..(m - 1) : Order!PutByte(x, Order!SwapFrom(m, k)) \in OctetVals
  BY <1>1, OctetType
<1>3. OctetsSwapped(x, m) \in Octets(m)
  BY <1>2 DEF OctetsSwapped, Octets
<1>4. Order!Bswap(x, m) = Order!Joined(OctetsSwapped(x, m), m)
  BY DEF Order!Bswap, OctetsSwapped
<1> QED BY <1>1, <1>3, <1>4 DEF OctetsSwapped

\* The bytes of a swapped value.
LEMMA SwappedBytes ==
    ASSUME Order!Inputs, NEW m, m \in 1..8, NEW x, x \in Nat
    PROVE  /\ Order!Bswap(x, m) \in Nat
           /\ \A k \in 0..(m - 1) :
                Order!PutByte(Order!Bswap(x, m), k) = Order!PutByte(x, (m - 1) - k)
<1> DEFINE d == OctetsSwapped(x, m)
<1>1. d \in Octets(m) /\ Order!Bswap(x, m) = Order!Joined(d, m)
      /\ \A k \in 0..(m - 1) : d[k] = Order!PutByte(x, (m - 1) - k)
  BY SwapIs
<1> HIDE DEF d
<1>2. /\ Order!Joined(d, m) \in Nat
      /\ \A k \in 0..(m - 1) : Order!PutByte(Order!Joined(d, m), k) = d[k]
  BY <1>1, JoinedBytes
<1> QED BY <1>1, <1>2

\* The types, and what the last AES_PUT_ has left.
BytesInv ==
    /\ mMem \in [1..MemLen -> OctetVals]
    /\ mLast.value \in Nat
    /\ mLast.width # 0 =>
         /\ <<mLast.width, mLast.order>> \in Order!Accessors
         /\ mLast.at \in 1..MemLen /\ mLast.at + mLast.width <= MemLen + 1
         /\ \A k \in 1..mLast.width :
              mMem[(mLast.at + k) - 1] =
                  Order!PutByte(mLast.value, Order!PutShift(mLast.width, mLast.order, k))

\* The widths and orders there are.
LEMMA AccessorIs ==
    ASSUME NEW w0, NEW o0, <<w0, o0>> \in Order!Accessors
    PROVE  w0 \in {2, 3, 4, 8} /\ o0 \in {"be", "le"}
  BY DEF Order!Accessors

\* It holds before anything is put,
LEMMA BytesStarts ==
    ASSUME Order!Inputs, Order!Init PROVE BytesInv
<1>1. 0 \in OctetVals /\ MemLen \in Nat
  BY DEF Order!Inputs, OctetVals
<1> QED BY <1>1 DEF BytesInv, Order!Init

\* and after AES_PUT_ anywhere.
LEMMA BytesStays ==
    ASSUME Order!Inputs, BytesInv, [Order!Next]_(Order!vars) PROVE BytesInv'
<1>1. CASE UNCHANGED Order!vars
  BY <1>1 DEF BytesInv, Order!vars
<1>2. CASE Order!Next
  <2>1. PICK a0 \in Order!Accessors, t0 \in 1..MemLen :
           \E x \in 0..(Order!Weight[Order!TypeBytes(a0[1])] - 1) : Order!Put(a0, t0, x)
    BY <1>2 DEF Order!Next
  <2> DEFINE w0 == a0[1]
             o0 == a0[2]
  <2>2. w0 \in {2, 3, 4, 8} /\ o0 \in {"be", "le"} /\ <<w0, o0>> \in Order!Accessors
    BY DEF Order!Accessors
  <2>3. Order!TypeBytes(w0) \in 0..8
    BY <2>2 DEF Order!TypeBytes
  <2>4. PICK x : x \in Nat /\ Order!Put(a0, t0, x)
    <3>1. Order!Weight[Order!TypeBytes(w0)] \in Nat
      BY <2>3, WeightPositive
    <3> QED BY <2>1, <3>1
  <2>5. /\ t0 + w0 <= MemLen + 1
        /\ mMem' = [p \in 1..MemLen |-> IF p \in t0..((t0 + w0) - 1)
                                        THEN Order!Bytes(x, w0, o0)[(p - t0) + 1] ELSE mMem[p]]
        /\ mLast' = [at |-> t0, width |-> w0, order |-> o0, value |-> x]
    BY <2>4 DEF Order!Put
  <2> HIDE DEF w0, o0
  <2>6. \A k \in 1..w0 : /\ Order!PutShift(w0, o0, k) \in 0..8
                         /\ Order!Bytes(x, w0, o0)[k] = Order!PutByte(x, Order!PutShift(w0, o0, k))
    BY <2>2 DEF Order!PutShift, Order!Bytes
  <2>7. \A k \in 1..w0 : Order!Bytes(x, w0, o0)[k] \in OctetVals
    BY <2>4, <2>6, OctetType
  <2>8. MemLen \in Nat /\ t0 \in 1..MemLen /\ w0 \in Nat
    BY <2>2 DEF Order!Inputs
  <2>9. mMem' \in [1..MemLen -> OctetVals]
    <3>1. \A p \in t0..((t0 + w0) - 1) : (p - t0) + 1 \in 1..w0
      BY <2>8
    <3>2. \A p \in 1..MemLen : mMem[p] \in OctetVals
      BY DEF BytesInv
    <3> QED BY <2>5, <2>7, <3>1, <3>2
  <2>10. ASSUME NEW k \in 1..w0 PROVE mMem'[(t0 + k) - 1] = Order!Bytes(x, w0, o0)[k]
    <3>1. /\ (t0 + k) - 1 \in 1..MemLen /\ (t0 + k) - 1 \in t0..((t0 + w0) - 1)
          /\ (((t0 + k) - 1) - t0) + 1 = k
      BY <2>5, <2>8
    <3> QED BY <2>5, <3>1
  <2> QED BY ZenonT(60), <2>2, <2>4, <2>5, <2>6, <2>8, <2>9, <2>10 DEF BytesInv
<1> QED BY <1>1, <1>2

-----------------------------------------------------------------------------
\* What is read of the buffer.
BytesAt(t0, m) == SubSeq(mMem, t0, (t0 + m) - 1)

\* They are the bytes at these places.
LEMMA ReadIs ==
    ASSUME BytesInv, Order!Inputs, NEW t0, t0 \in 1..MemLen,
           NEW m, m \in 1..8, t0 + m <= MemLen + 1
    PROVE  /\ BytesAt(t0, m) \in [1..m -> OctetVals]
           /\ \A k \in 1..m : BytesAt(t0, m)[k] = mMem[(t0 + k) - 1]
<1>1. MemLen \in Nat /\ mMem \in [1..MemLen -> OctetVals]
  BY DEF BytesInv, Order!Inputs
<1> DEFINE e == (t0 + m) - 1
           u == BytesAt(t0, m)
<1>2. t0 \in Int /\ e \in Int /\ (e - t0) + 1 = m /\ t0 <= e /\ m \in Nat
      /\ \A p \in t0..e : p \in 1..MemLen
  BY <1>1
<1>3. u = SubSeq(mMem, t0, e)
  BY DEF BytesAt
<1>4. \A p \in t0..e : mMem[p] \in OctetVals
  BY <1>1, <1>2
<1> HIDE DEF e, u
<1>5. /\ u \in Seq(OctetVals) /\ Len(u) = (e - t0) + 1
      /\ \A k \in 1..((e - t0) + 1) : u[k] = mMem[(t0 + k) - 1]
  BY <1>2, <1>3, <1>4, SubSeqProperties
<1>6. Len(u) = m /\ u \in [1..m -> OctetVals]
  BY <1>2, <1>5
<1> QED BY <1>2, <1>5, <1>6 DEF u

\* What was put is read again,
LEMMA PutIsRead ==
    ASSUME Order!Inputs, BytesInv PROVE Order!PutThenGet
<1> SUFFICES ASSUME mLast.width # 0
             PROVE  Order!Get(SubSeq(mMem, mLast.at, (mLast.at + mLast.width) - 1), mLast.order)
                        = mLast.value % Order!Weight[mLast.width]
  BY DEF Order!PutThenGet
<1> DEFINE w0 == mLast.width
           o0 == mLast.order
           t0 == mLast.at
           x == mLast.value
           u == BytesAt(t0, w0)
<1>1. /\ mMem \in [1..MemLen -> OctetVals] /\ x \in Nat
      /\ <<w0, o0>> \in Order!Accessors
      /\ t0 \in 1..MemLen /\ t0 + w0 <= MemLen + 1
      /\ \A k \in 1..w0 :
           mMem[(t0 + k) - 1] = Order!PutByte(x, Order!PutShift(w0, o0, k))
  BY DEF BytesInv
<1>2. w0 \in 1..8 /\ o0 \in {"be", "le"} /\ MemLen \in Nat
  BY <1>1, AccessorIs DEF Order!Inputs
<1>3. u \in [1..w0 -> OctetVals] /\ \A k \in 1..w0 : u[k] = mMem[(t0 + k) - 1]
  <2> HIDE DEF w0, o0, t0, x
  <2> QED BY <1>1, <1>2, ReadIs
<1> HIDE DEF u, w0, o0, t0, x
<1> DEFINE d == OctetsRead(u, o0)
<1>4. /\ d \in Octets(w0) /\ Order!Get(u, o0) = Order!Joined(d, w0)
      /\ \A k \in 0..(w0 - 1) : d[k] = u[IF o0 = "be" THEN w0 - k ELSE k + 1]
  BY <1>2, <1>3, GetIs
<1> HIDE DEF d
<1>5. ASSUME NEW k \in 0..(w0 - 1) PROVE d[k] = Order!PutByte(x, k)
  <2> DEFINE p == IF o0 = "be" THEN w0 - k ELSE k + 1
  <2>1. p \in 1..w0 /\ Order!PutShift(w0, o0, p) = k
    BY <1>2 DEF Order!PutShift
  <2>2. d[k] = u[p]
    BY <1>4
  <2> HIDE DEF p
  <2> QED BY <1>1, <1>3, <2>1, <2>2
<1>6. Order!Joined(d, w0) = x % Order!Weight[w0]
  BY <1>1, <1>2, <1>4, <1>5, JoinedValue
<1> QED BY <1>4, <1>6 DEF BytesAt, u, w0, o0, t0, x

\* reading in the other order is swapping,
LEMMA ReadsMirror ==
    ASSUME Order!Inputs, BytesInv PROVE Order!OrdersMirror
<1> SUFFICES ASSUME NEW m \in {2, 4, 8}, NEW t0 \in 1..((MemLen - m) + 1)
             PROVE  Order!Get(SubSeq(mMem, t0, (t0 + m) - 1), "le")
                        = Order!Bswap(Order!Get(SubSeq(mMem, t0, (t0 + m) - 1), "be"), m)
  BY DEF Order!OrdersMirror
<1> DEFINE u == BytesAt(t0, m)
<1>1. m \in 1..8 /\ MemLen \in Nat /\ mMem \in [1..MemLen -> OctetVals]
      /\ t0 \in 1..MemLen /\ t0 + m <= MemLen + 1
  BY DEF BytesInv, Order!Inputs
<1>2. u \in [1..m -> OctetVals]
  BY <1>1, ReadIs
<1> HIDE DEF u
<1> DEFINE d == OctetsRead(u, "be")
           e == OctetsRead(u, "le")
           x == Order!Get(u, "be")
           f == OctetsSwapped(x, m)
<1>3. /\ d \in Octets(m) /\ x = Order!Joined(d, m)
      /\ \A k \in 0..(m - 1) : d[k] = u[m - k]
  <2>1. "be" \in {"be", "le"}
    OBVIOUS
  <2> QED BY <1>1, <1>2, <2>1, GetIs
<1>4. /\ e \in Octets(m) /\ Order!Get(u, "le") = Order!Joined(e, m)
      /\ \A k \in 0..(m - 1) : e[k] = u[k + 1]
  <2>1. "le" \in {"be", "le"} /\ "le" # "be"
    OBVIOUS
  <2> QED BY <1>1, <1>2, <2>1, GetIs
<1> HIDE DEF d, e, x
<1>5. x \in Nat /\ \A p \in 0..(m - 1) : Order!PutByte(x, p) = d[p]
  BY <1>1, <1>3, JoinedBytes
<1>6. /\ f \in Octets(m) /\ Order!Bswap(x, m) = Order!Joined(f, m)
      /\ \A k \in 0..(m - 1) : f[k] = Order!PutByte(x, (m - 1) - k)
  BY <1>1, <1>5, SwapIs
<1> HIDE DEF f
<1>7. ASSUME NEW k \in 0..(m - 1) PROVE e[k] = f[k]
  <2>1. (m - 1) - k \in 0..(m - 1) /\ m - ((m - 1) - k) = k + 1
    BY <1>1
  <2> QED BY <1>3, <1>4, <1>5, <1>6, <2>1
<1>8. e = f
  BY <1>4, <1>6, <1>7 DEF Octets
<1> QED BY <1>4, <1>6, <1>8 DEF BytesAt, u, x

\* and what a host of either order stores is what AES_PUT_ would have written.
LEMMA HostsStore ==
    ASSUME Order!Inputs, BytesInv PROVE Order!HostsAgree
<1> DEFINE m == mLast.width
           o0 == mLast.order
           x == mLast.value
<1> SUFFICES ASSUME m \in {2, 4, 8}, NEW h0 \in {"be", "le"}
             PROVE  Order!Bytes(Order!HostTo(h0, o0, x, m), m, h0) = Order!Bytes(x, m, o0)
  BY DEF Order!HostsAgree
<1>1. m \in 1..8 /\ o0 \in {"be", "le"} /\ x \in Nat
  BY AccessorIs DEF BytesInv
<1> HIDE DEF m, o0, x
<1>2. CASE h0 = o0
  BY <1>2 DEF Order!HostTo
<1>3. CASE h0 # o0
  <2>1. Order!HostTo(h0, o0, x, m) = Order!Bswap(x, m)
    BY <1>3 DEF Order!HostTo
  <2>2. \A k \in 0..(m - 1) : Order!PutByte(Order!Bswap(x, m), k) = Order!PutByte(x, (m - 1) - k)
    BY <1>1, SwappedBytes
  <2>3. ASSUME NEW p \in 1..m
        PROVE  Order!PutByte(Order!Bswap(x, m), Order!PutShift(m, h0, p))
                   = Order!PutByte(x, Order!PutShift(m, o0, p))
    <3>1. /\ Order!PutShift(m, h0, p) \in 0..(m - 1)
          /\ (m - 1) - Order!PutShift(m, h0, p) = Order!PutShift(m, o0, p)
      BY <1>1, <1>3 DEF Order!PutShift
    <3> QED BY <2>2, <3>1
  <2> QED BY <2>1, <2>3 DEF Order!Bytes
<1> QED BY <1>2, <1>3

-----------------------------------------------------------------------------
\* OMAC1 computes with the bytes and bits of the cipher.
LEMMA OmacBits ==
    \A a, b, k : Omac!Bit(a, k) = Bit(a, k) /\ Omac!XorByte(a, b) = XorByte(a, b)
  BY DEF Omac!Bit, Bit, Omac!XorByte, XorByte, Omac!XorNibble, XorNibble

Pads == [1..16 -> Byte]

\* A byte shifted up, with what comes into it.
ShiftedUp(a, c) == ((2 * a) % 256) + c

\* A byte shifted up is a byte,
LEMMA UpType ==
    ASSUME NEW a \in Byte, NEW c \in {0, 1}
    PROVE  /\ ShiftedUp(a, c) \in Byte
           /\ Bit(ShiftedUp(a, c), 0) = c
           /\ \A k \in 1..7 : Bit(ShiftedUp(a, c), k) = Bit(a, k - 1)
<1>1. ShiftedUp(a, c) \in Byte
  BY DEF ShiftedUp, Byte
<1>2. LET up == ((2 * a) % 256) + c
      IN  Bit(up, 0) = c /\ \A k \in 1..7 : Bit(up, k) = Bit(a, k - 1)
  BY BitsCorrect
<1> QED BY <1>1, <1>2 DEF ShiftedUp

\* The places of the bits of a block.
LEMMA BitPlaces ==
    \A x \in 0..127 :
        /\ 16 - (x \div 8) \in 1..16 /\ x % 8 \in 0..7
        /\ x % 8 > 0 => (x - 1) \div 8 = x \div 8 /\ (x - 1) % 8 = (x % 8) - 1
        /\ x % 8 = 0 /\ x > 0 => (x - 1) \div 8 = (x \div 8) - 1 /\ (x - 1) % 8 = 7
        /\ x < 8 <=> 16 - (x \div 8) = 16
        /\ x < 8 => x % 8 = x
  OBVIOUS

\* A block shifted up, before what has fallen out of it comes back.
UpOf(p) == [n \in 1..16 |-> ShiftedUp(p[n], IF n < 16 THEN p[n + 1] \div 128 ELSE 0)]

\* and a block of them a block.
LEMMA UpOfType ==
    ASSUME NEW p \in Pads
    PROVE  /\ UpOf(p) \in Pads
           /\ \A n \in 1..15 : Bit(UpOf(p)[n], 0) = Bit(p[n + 1], 7)
           /\ Bit(UpOf(p)[16], 0) = 0
           /\ \A n \in 1..16 : \A k \in 1..7 : Bit(UpOf(p)[n], k) = Bit(p[n], k - 1)
<1> DEFINE c(n) == IF n < 16 THEN p[n + 1] \div 128 ELSE 0
<1>1. \A n \in 1..16 : p[n] \in Byte
  BY DEF Pads
<1>2. \A n \in 1..16 : c(n) \in {0, 1}
  BY SMTT(40), <1>1 DEF Byte
<1>3. \A n \in 1..16 : UpOf(p)[n] = ShiftedUp(p[n], c(n))
  BY DEF UpOf
<1>4. \A n \in 1..15 : c(n) = Bit(p[n + 1], 7)
  BY <1>1, BitsCorrect
<1>5. c(16) = 0
  OBVIOUS
<1> HIDE DEF c
<1>6. \A n \in 1..16 : /\ UpOf(p)[n] \in Byte /\ Bit(UpOf(p)[n], 0) = c(n)
                       /\ \A k \in 1..7 : Bit(UpOf(p)[n], k) = Bit(p[n], k - 1)
  BY <1>1, <1>2, <1>3, UpType
<1>7. UpOf(p) \in Pads
  BY <1>6 DEF UpOf, Pads
<1> QED BY <1>4, <1>5, <1>6, <1>7

\* Bit x of a block is its coefficient of x.
HasBit(p, x) == Bit(p[16 - (x \div 8)], x % 8) = 1

\* The bits of a block that are set.
LEMMA BitsAre ==
    ASSUME NEW p PROVE Omac!Bits(p) = {x \in 0..127 : HasBit(p, x)}
  BY OmacBits DEF Omac!Bits, HasBit, Omac!Block

\* Shifted up, every coefficient is one higher.
LEMMA UpBits ==
    ASSUME NEW p \in Pads, NEW x \in 0..127
    PROVE  HasBit(UpOf(p), x) <=> x > 0 /\ HasBit(p, x - 1)
<1> DEFINE n == 16 - (x \div 8)
           k == x % 8
<1>1. n \in 1..16 /\ k \in 0..7
  BY BitPlaces
<1>2. CASE k > 0
  <2>1. x > 0 /\ 16 - ((x - 1) \div 8) = n /\ (x - 1) % 8 = k - 1 /\ k \in 1..7
    BY <1>1, <1>2, BitPlaces
  <2>2. Bit(UpOf(p)[n], k) = Bit(p[n], k - 1)
    BY <1>1, <2>1, UpOfType
  <2> QED BY <2>1, <2>2 DEF HasBit
<1>3. CASE k = 0 /\ x > 0
  <2>1. 16 - ((x - 1) \div 8) = n + 1 /\ (x - 1) % 8 = 7 /\ n \in 1..15
    BY <1>1, <1>3, BitPlaces
  <2>2. Bit(UpOf(p)[n], 0) = Bit(p[n + 1], 7)
    BY <2>1, UpOfType
  <2> QED BY <1>3, <2>1, <2>2 DEF HasBit
<1>4. CASE x = 0
  <2>1. n = 16 /\ k = 0
    BY <1>4
  <2>2. Bit(UpOf(p)[16], 0) = 0
    BY UpOfType
  <2> QED BY <1>4, <2>1, <2>2 DEF HasBit
<1> QED BY <1>1, <1>2, <1>3, <1>4

\* gf_mulx is multiplication by x.
LEMMA PadDoubled ==
    ASSUME NEW p \in Pads
    PROVE  Omac!gf_mulx(p) \in Pads /\ Omac!Bits(Omac!gf_mulx(p)) = Omac!Times2(Omac!Bits(p))
<1> DEFINE q == Omac!gf_mulx(p)
           u == UpOf(p)
           bs == Omac!Bits(p)
           up == {x + 1 : x \in bs}
           C == {128, 7, 2, 1, 0}
<1>1. u \in Pads
  BY UpOfType
<1>2. 135 \in Byte /\ \A n \in 1..16 : p[n] \in Byte
  BY DEF Byte, Pads
<1>3. \A n \in 1..15 : q[n] = u[n]
  BY <1>2 DEF Omac!gf_mulx, Omac!Block, UpOf, ShiftedUp
<1>4. q = [n \in 1..16 |-> q[n]]
  BY DEF Omac!gf_mulx, Omac!Block
<1>5. q[16] = IF p[1] < 128 THEN u[16] ELSE XorByte(u[16], 135)
  <2>1. u[16] = (2 * p[16]) % 256
    BY <1>2 DEF UpOf, ShiftedUp, Byte
  <2> QED BY <2>1, OmacBits DEF Omac!gf_mulx, Omac!Block
<1>6. p[1] < 128 <=> ~(127 \in bs)
  <2>1. Bit(p[1], 7) = p[1] \div 128
    BY <1>2, BitsCorrect
  <2>2. 16 - (127 \div 8) = 1 /\ 127 % 8 = 7 /\ 127 \in 0..127
    OBVIOUS
  <2>3. 127 \in bs <=> Bit(p[1], 7) = 1
    BY <2>2, BitsAre DEF HasBit
  <2> QED BY <1>2, <2>1, <2>3 DEF Byte
<1>7. q \in Pads
  <2>1. XorByte(u[16], 135) \in Byte
    BY <1>1, <1>2, XorType DEF Pads
  <2>2. \A n \in 1..16 : n \in 1..15 \/ n = 16
    OBVIOUS
  <2>3. \A n \in 1..16 : q[n] \in Byte
    BY <1>1, <1>3, <1>5, <2>1, <2>2 DEF Pads
  <2> QED BY <1>4, <2>3 DEF Pads
<1> HIDE DEF q, u, bs
<1>8. \A x \in 0..127 : x \in bs <=> HasBit(p, x)
  BY BitsAre DEF bs
<1>9. bs \subseteq 0..127
  BY BitsAre DEF bs
<1>10. \A x \in 0..127 : HasBit(u, x) <=> x \in up
  <2>1. ASSUME NEW x \in 0..127 PROVE HasBit(u, x) <=> x \in up
    <3>1. HasBit(u, x) <=> x > 0 /\ HasBit(p, x - 1)
      BY UpBits DEF u
    <3>2. x \in up <=> x > 0 /\ x - 1 \in bs
      <4>1. ASSUME x \in up PROVE x > 0 /\ x - 1 \in bs
        <5>1. PICK y \in bs : x = y + 1
          BY <4>1
        <5>2. y \in 0..127
          BY <1>9
        <5> QED BY <5>1, <5>2
      <4>2. ASSUME x - 1 \in bs PROVE x \in up
        <5>1. (x - 1) + 1 = x
          OBVIOUS
        <5> QED BY <4>2, <5>1
      <4> QED BY <4>1, <4>2
    <3>3. x > 0 => x - 1 \in 0..127
      OBVIOUS
    <3> QED BY <1>8, <3>1, <3>2, <3>3
  <2> QED BY <2>1
<1>11. (128 \in up <=> 127 \in bs) /\ up \subseteq 0..128
  BY <1>9
<1>12. Omac!Times2(bs) = IF 128 \in up THEN Omac!Xor(up, C) ELSE up
  BY DEF Omac!Times2
<1>13. Omac!Bits(q) = {x \in 0..127 : HasBit(q, x)}
  BY BitsAre
<1> HIDE DEF up
<1>14. CASE ~(127 \in bs)
  <2>1. \A n \in 1..16 : q[n] = u[n]
    <3>1. \A n \in 1..16 : n \in 1..15 \/ n = 16
      OBVIOUS
    <3> QED BY <1>3, <1>5, <1>6, <1>14, <3>1
  <2>2. \A x \in 0..127 : HasBit(q, x) <=> HasBit(u, x)
    BY <2>1, BitPlaces DEF HasBit
  <2>3. \A x : x \in up => x \in 0..127
    BY <1>11, <1>14
  <2>4. Omac!Bits(q) = up
    BY <1>10, <1>13, <2>2, <2>3
  <2> QED BY <1>7, <1>11, <1>12, <1>14, <2>4 DEF q, bs
<1>15. CASE 127 \in bs
  <2>1. q[16] = XorByte(u[16], 135) /\ u[16] \in Byte
    BY <1>1, <1>5, <1>6, <1>15 DEF Pads
  <2>2. \A k \in 0..7 : Bit(q[16], k) = 1 <=> ~(Bit(u[16], k) = 1 <=> k \in {0, 1, 2, 7})
    <3>1. \A k \in 0..7 : Bit(q[16], k) = IF Bit(u[16], k) = Bit(135, k) THEN 0 ELSE 1
      BY <1>2, <2>1, BitsCorrect
    <3>2. \A k \in 0..7 : Bit(u[16], k) \in {0, 1}
      BY <2>1, BitsCorrect
    <3> QED BY <3>1, <3>2, PadBits
  <2>3. ASSUME NEW x \in 0..127
        PROVE  HasBit(q, x) <=> ~(HasBit(u, x) <=> x \in C)
    <3>1. CASE x < 8
      <4>1. 16 - (x \div 8) = 16 /\ x % 8 = x /\ x \in 0..7
        BY <3>1, BitPlaces
      <4>2. x \in C <=> x \in {0, 1, 2, 7}
        BY <4>1
      <4> QED BY <2>2, <4>1, <4>2 DEF HasBit
    <3>2. CASE ~(x < 8)
      <4>1. 16 - (x \div 8) \in 1..15 /\ ~(x \in C)
        BY <3>2, BitPlaces
      <4> QED BY <1>3, <4>1 DEF HasBit
    <3> QED BY <3>1, <3>2
  <2>4. Omac!Xor(up, C) \subseteq 0..127
    BY <1>11, <1>15 DEF Omac!Xor
  <2>5. \A x \in 0..127 : x \in Omac!Xor(up, C) <=> HasBit(q, x)
    BY <1>10, <2>3 DEF Omac!Xor
  <2>6. Omac!Bits(q) = Omac!Xor(up, C)
    BY <1>13, <2>4, <2>5
  <2> QED BY <1>7, <1>11, <1>12, <1>15, <2>6 DEF q, bs
<1> QED BY <1>14, <1>15

-----------------------------------------------------------------------------
\* A vector of elements.
IsVector(v) == Omac!IsSeq(v) /\ \A k \in 1..Len(v) : Omac!IsSeq(v[k])

\* What its first elements add up to.
IsUpto(h, v) ==
    /\ h \in [0..Len(v) -> Nat] /\ h[0] = 0
    /\ \A k \in 1..Len(v) : h[k] = h[k - 1] + Len(v[k])

\* The lengths of the elements,
LEMMA VectorLens ==
    ASSUME NEW v, IsVector(v)
    PROVE  Len(v) \in Nat /\ \A k \in 1..Len(v) : Len(v[k]) \in Nat
  BY DEF IsVector, Omac!IsSeq

\* and their sums, one element after the other;
LEMMA UptoIs ==
    ASSUME NEW v, IsVector(v) PROVE IsUpto(Omac!Upto(v), v)
<1> DEFINE n == Len(v)
           g == [x \in (1..n) \X Nat |-> x[2] + Len(v[x[1]])]
<1>1. n \in Nat /\ \A k \in 1..n : Len(v[k]) \in Nat
  BY VectorLens
<1> HIDE DEF n
<1>2. g \in [(1..n) \X Nat -> Nat]
  <2>1. ASSUME NEW x \in (1..n) \X Nat PROVE x[2] + Len(v[x[1]]) \in Nat
    <3>1. x[2] \in Nat /\ x[1] \in 1..n
      OBVIOUS
    <3>2. Len(v[x[1]]) \in Nat
      BY <1>1, <3>1
    <3> QED BY <3>1, <3>2
  <2> QED BY <2>1
<1>3. \A k \in 1..n, y \in Nat : g[<<k, y>>] = y + Len(v[k])
  OBVIOUS
<1> HIDE DEF g
<1>4. PICK h : h \in [0..n -> Nat] /\ h[0] = 0 /\ \A k \in 1..n : h[k] = g[<<k, h[k - 1]>>]
  <2>1. 0 \in Nat
    OBVIOUS
  <2>2. PICK h : Iterates(h, g, n, 0)
    BY <1>1, <1>2, <2>1, Iterated
  <2> QED BY <2>2 DEF Iterates
<1>5. \A k \in 1..n : k - 1 \in 0..n /\ h[k - 1] \in Nat
  BY <1>1, <1>4
<1>6. \A k \in 1..n : h[k] = h[k - 1] + Len(v[k])
  BY <1>3, <1>4, <1>5
<1> DEFINE F(f) == [k \in 0..n |-> IF k = 0 THEN 0 ELSE f[k - 1] + Len(v[k])]
           sum == CHOOSE f : f = F(f)
<1>7. h = F(h)
  <2> DEFINE D == 0..n
  <2>1. \A k \in D : h[k] = IF k = 0 THEN 0 ELSE h[k - 1] + Len(v[k])
    BY <1>1, <1>4, <1>6
  <2>2. h = [k \in D |-> h[k]]
    BY <1>4
  <2> HIDE DEF D
  <2>3. h = [k \in D |-> IF k = 0 THEN 0 ELSE h[k - 1] + Len(v[k])]
    BY <2>1, <2>2
  <2> QED BY <2>3 DEF D
<1>8. sum = F(sum)
  BY <1>7
<1>9. Omac!Upto(v) = sum
  BY DEF Omac!Upto, n
<1> HIDE DEF sum
<1>10. sum[0] = 0 /\ \A k \in 1..n : sum[k] = sum[k - 1] + Len(v[k])
  BY <1>1, <1>8
<1>11. \A k \in 0..n : sum[k] = h[k]
  <2> DEFINE U == {k \in 0..n : sum[k] = h[k]}
  <2>1. 0 \in U
    BY <1>1, <1>4, <1>10
  <2>2. \A k \in 1..n : k - 1 \in U => k \in U
    BY <1>6, <1>10
  <2> HIDE DEF U
  <2>3. \A k \in 0..n : k \in U
    BY <1>1, <2>1, <2>2, Climbs
  <2> QED BY <2>3 DEF U
<1>12. sum = h
  <2>1. sum = [k \in 0..n |-> sum[k]]
    <3> DEFINE E(k) == IF k = 0 THEN 0 ELSE sum[k - 1] + Len(v[k])
    <3>1. sum = [k \in 0..n |-> E(k)]
      BY <1>8
    <3> HIDE DEF E
    <3> QED BY <3>1
  <2>2. h = [k \in 0..n |-> h[k]]
    BY <1>4
  <2> QED BY <1>11, <2>1, <2>2
<1> QED BY <1>4, <1>6, <1>9, <1>12 DEF IsUpto, n

\* the last is what the loop adds up.
LEMMA TotalIs ==
    ASSUME NEW v, IsVector(v)
    PROVE  /\ Omac!TotalLen(v) = Omac!Upto(v)[Len(v)] /\ Omac!TotalLen(v) \in Nat
           /\ \A k \in 0..Len(v) : Omac!Upto(v)[k] \in Nat
<1>1. IsUpto(Omac!Upto(v), v) /\ Len(v) \in Nat
  BY UptoIs, VectorLens
<1> QED BY <1>1 DEF IsUpto, Omac!TotalLen

\* It grows,
LEMMA UptoGrows ==
    ASSUME NEW v, IsVector(v), NEW m, m \in 0..Len(v)
    PROVE  \A k \in m..Len(v) : Omac!Upto(v)[m] <= Omac!Upto(v)[k]
<1> DEFINE h == Omac!Upto(v)
           U == {k \in 0..Len(v) : k >= m => h[m] <= h[k]}
<1>1. IsUpto(h, v) /\ Len(v) \in Nat /\ \A k \in 1..Len(v) : Len(v[k]) \in Nat
  BY UptoIs, VectorLens
<1> HIDE DEF h
<1>2. h \in [0..Len(v) -> Nat] /\ \A k \in 1..Len(v) : h[k] = h[k - 1] + Len(v[k])
  BY <1>1 DEF IsUpto
<1>3. 0 \in U
  BY <1>1, <1>2
<1>4. ASSUME NEW k \in 1..Len(v), k - 1 \in U PROVE k \in U
  <2>0. k - 1 \in 0..Len(v) /\ k \in 0..Len(v) /\ m \in 0..Len(v)
    BY <1>1
  <2>1. h[k] = h[k - 1] + Len(v[k])
        /\ h[k - 1] \in Nat /\ h[k] \in Nat /\ h[m] \in Nat /\ Len(v[k]) \in Nat
    BY <1>1, <1>2, <2>0
  <2> QED BY <1>4, <2>0, <2>1
<1> HIDE DEF U
<1>5. \A k \in 0..Len(v) : k \in U
  BY <1>1, <1>3, <1>4, Climbs
<1> QED BY <1>5 DEF U, h

\* and a byte behind the first k elements that is not behind k + 1 is one of the next.
LEMMA WholeAt ==
    ASSUME NEW v, IsVector(v), NEW k, k \in 1..Len(v), NEW p, p \in 1..Len(v[k])
    PROVE  /\ (Omac!Upto(v)[k - 1] + p) \in 1..Omac!TotalLen(v)
           /\ Omac!Whole(v)[Omac!Upto(v)[k - 1] + p] = v[k][p]
<1> DEFINE h == Omac!Upto(v)
           n == h[k - 1] + p
           t0 == Omac!TotalLen(v)
<1>1. IsUpto(h, v) /\ Len(v) \in Nat /\ \A m \in 1..Len(v) : Len(v[m]) \in Nat
  BY UptoIs, VectorLens
<1>2. \A m \in 0..Len(v) : \A q \in m..Len(v) : h[m] <= h[q]
  BY UptoGrows
<1>3. /\ t0 = h[Len(v)]
      /\ \A x \in 1..t0 : Omac!Whole(v)[x]
                              = v[Omac!ElementOf(v, x)][x - h[Omac!ElementOf(v, x) - 1]]
  BY DEF Omac!TotalLen, Omac!Whole
<1> DEFINE q0 == Omac!ElementOf(v, n)
<1>0. q0 = CHOOSE q \in 1..Len(v) : n - h[q - 1] \in 1..Len(v[q])
  BY DEF Omac!ElementOf
<1> HIDE DEF h, t0
<1>4. /\ \A m \in 0..Len(v) : h[m] \in Nat
      /\ \A m \in 1..Len(v) : h[m] = h[m - 1] + Len(v[m])
  BY <1>1 DEF IsUpto
<1>5. /\ k - 1 \in 0..Len(v) /\ k \in 0..Len(v) /\ Len(v) \in k..Len(v)
      /\ h[k - 1] \in Nat /\ h[k] = h[k - 1] + Len(v[k]) /\ h[k] <= t0 /\ t0 \in Nat
  BY <1>1, <1>2, <1>3, <1>4
<1>6. n \in 1..t0 /\ n - h[k - 1] = p /\ n \in Nat
  BY <1>1, <1>5
<1> HIDE DEF n
<1>7. ASSUME NEW q \in 1..Len(v), n - h[q - 1] \in 1..Len(v[q]) PROVE q = k
  <2>1. q \in 0..Len(v) /\ q - 1 \in 0..Len(v) /\ h[q - 1] \in Nat /\ h[q] \in Nat
        /\ h[q] = h[q - 1] + Len(v[q]) /\ Len(v[q]) \in Nat
    BY <1>1, <1>4
  <2>2. h[q - 1] < n /\ n <= h[q]
    BY <1>6, <1>7, <2>1
  <2>3. h[k - 1] < n /\ n <= h[k]
    BY <1>1, <1>5, <1>6
  <2>4. CASE q < k
    <3>1. k - 1 \in q..Len(v) /\ h[q] <= h[k - 1]
      BY <1>1, <1>2, <2>1, <2>4
    <3> QED BY <1>5, <1>6, <2>1, <2>2, <2>3, <3>1
  <2>5. CASE k < q
    <3>1. q - 1 \in k..Len(v) /\ h[k] <= h[q - 1]
      BY <1>1, <1>2, <1>5, <2>1, <2>5
    <3> QED BY SMTT(40), <1>5, <1>6, <1>4, <2>1, <2>2, <2>3, <3>1
  <2> QED BY <2>4, <2>5
<1>8. q0 = k
  <2>1. k \in 1..Len(v) /\ n - h[k - 1] \in 1..Len(v[k])
    BY <1>6
  <2>2. q0 \in 1..Len(v) /\ n - h[q0 - 1] \in 1..Len(v[q0])
    BY <1>0, <2>1
  <2> HIDE DEF q0
  <2> QED BY <1>7, <2>2
<1>9. Omac!Whole(v)[n] = v[q0][n - h[q0 - 1]]
  BY <1>3, <1>6
<1> HIDE DEF q0
<1>10. Omac!Whole(v)[n] = v[k][p]
  BY <1>6, <1>8, <1>9
<1>11. n \in 1..t0 /\ Omac!Whole(v)[n] = v[k][p]
  BY <1>6, <1>10
<1>12. n = h[k - 1] + p
  BY DEF n
<1>13. h[k - 1] + p \in 1..t0 /\ Omac!Whole(v)[h[k - 1] + p] = v[k][p]
  BY <1>11, <1>12
<1> QED BY <1>13 DEF h, t0

\* The whole is as long as that.
LEMMA WholeLen ==
    ASSUME NEW v, IsVector(v)
    PROVE  Omac!IsSeq(Omac!Whole(v)) /\ Len(Omac!Whole(v)) = Omac!TotalLen(v)
<1> DEFINE W == Omac!Whole(v)
           t0 == Omac!TotalLen(v)
           V == {W[n] : n \in 1..t0}
<1>1. t0 \in Nat
  BY TotalIs
<1>2. W = [n \in 1..t0 |-> W[n]]
  <2> DEFINE E(n) == v[Omac!ElementOf(v, n)][n - Omac!Upto(v)[Omac!ElementOf(v, n) - 1]]
  <2>1. W = [n \in 1..t0 |-> E(n)]
    BY DEF Omac!Whole
  <2> HIDE DEF E, W, t0
  <2> QED BY <2>1
<1> HIDE DEF W, t0
<1>3. W \in [1..t0 -> V]
  BY <1>2
<1>4. W \in Seq(V) /\ Len(W) = t0
  BY <1>1, <1>3
<1>5. W = [n \in 1..Len(W) |-> W[n]]
  BY <1>2, <1>4
<1>6. Omac!IsSeq(W) /\ Len(W) = t0
  BY <1>1, <1>4, <1>5 DEF Omac!IsSeq
<1> QED BY <1>6 DEF W, t0

-----------------------------------------------------------------------------
\* Where all elements behind the first m are empty, these m are the whole.
LEMMA UptoFlat ==
    ASSUME NEW v, IsVector(v), NEW m, m \in 0..Len(v),
           \A k \in (m + 1)..Len(v) : Len(v[k]) = 0
    PROVE  Omac!TotalLen(v) = Omac!Upto(v)[m]
<1> DEFINE h == Omac!Upto(v)
           U == {k \in 0..Len(v) : k >= m => h[k] = h[m]}
<1>1. IsUpto(h, v) /\ Len(v) \in Nat /\ Omac!TotalLen(v) = h[Len(v)]
  BY UptoIs, VectorLens DEF Omac!TotalLen
<1> HIDE DEF h
<1>2. h \in [0..Len(v) -> Nat] /\ \A k \in 1..Len(v) : h[k] = h[k - 1] + Len(v[k])
  BY <1>1 DEF IsUpto
<1>3. 0 \in U
  BY <1>1
<1>4. ASSUME NEW k \in 1..Len(v), k - 1 \in U PROVE k \in U
  <2>0. k - 1 \in 0..Len(v) /\ k \in 0..Len(v) /\ m \in 0..Len(v)
    BY <1>1
  <2>1. CASE k <= m
    BY <2>0, <2>1
  <2>2. CASE k > m
    <3>1. Len(v[k]) = 0
      BY <1>1, <2>0, <2>2
    <3>2. k - 1 >= m
      BY <2>0, <2>2
    <3>3. h[k - 1] = h[m] /\ h[k] = h[k - 1] + Len(v[k]) /\ h[k - 1] \in Nat
      BY <1>2, <1>4, <2>0, <3>2
    <3> QED BY <2>0, <3>1, <3>3
  <2> QED BY <2>0, <2>1, <2>2
<1> HIDE DEF U
<1>5. \A k \in 0..Len(v) : k \in U
  BY <1>1, <1>3, <1>4, Climbs
<1>6. Len(v) \in U
  BY <1>1, <1>5
<1>7. h[Len(v)] = h[m]
  BY <1>1, <1>6 DEF U
<1> QED BY <1>1, <1>7 DEF h

\* Element e0 and byte p0 of it, when n bytes of v have been read: the byte that is next, if no
\* element is empty before others, and never one behind it.
PointsAt(v, e0, p0, n) ==
    /\ e0 \in 1..(Len(v) + 1) /\ p0 \in Nat \ {0}
    /\ p0 = 1 \/ (e0 \in 1..Len(v) /\ p0 <= Len(v[e0]))
    /\ Omac!Upto(v)[e0 - 1] + (p0 - 1) <= n
    /\ Omac!EmptyLast(v) => Omac!Upto(v)[e0 - 1] + (p0 - 1) = n

\* The pointer is in the vector as long as not all of it has been read, and then at the next byte.
LEMMA PointerIn ==
    ASSUME NEW v, IsVector(v), NEW e0, NEW p0, NEW n, n \in Nat,
           PointsAt(v, e0, p0, n), n < Omac!TotalLen(v)
    PROVE  /\ e0 \in 1..Len(v) /\ p0 \in Nat \ {0}
           /\ Omac!EmptyLast(v) => p0 \in 1..Len(v[e0]) /\ Omac!Whole(v)[n + 1] = v[e0][p0]
<1> DEFINE h == Omac!Upto(v)
<1>1. /\ IsUpto(h, v) /\ Len(v) \in Nat /\ \A k \in 1..Len(v) : Len(v[k]) \in Nat
      /\ Omac!TotalLen(v) = h[Len(v)] /\ \A k \in 0..Len(v) : h[k] \in Nat
  BY UptoIs, VectorLens, TotalIs
<1>2. /\ e0 \in 1..(Len(v) + 1) /\ p0 \in Nat \ {0} /\ h[e0 - 1] + (p0 - 1) <= n
      /\ p0 = 1 \/ (e0 \in 1..Len(v) /\ p0 <= Len(v[e0]))
      /\ Omac!EmptyLast(v) => h[e0 - 1] + (p0 - 1) = n
  BY DEF PointsAt
<1> HIDE DEF h
<1>3. e0 \in 1..Len(v)
  <2>1. e0 - 1 \in 0..Len(v)
    BY <1>1, <1>2
  <2>2. h[e0 - 1] \in Nat
    BY <1>1, <2>1
  <2>3. h[e0 - 1] < h[Len(v)]
    BY <1>1, <1>2, <2>2
  <2>4. e0 - 1 # Len(v)
    BY <1>1, <2>2, <2>3
  <2> QED BY <1>1, <1>2, <2>4
<1>4. ASSUME Omac!EmptyLast(v)
      PROVE  p0 \in 1..Len(v[e0]) /\ Omac!Whole(v)[n + 1] = v[e0][p0]
  <2>1. Len(v[e0]) \in Nat /\ h[e0] = h[e0 - 1] + Len(v[e0]) /\ h[e0 - 1] \in Nat /\ h[e0] \in Nat
    <3>1. e0 - 1 \in 0..Len(v) /\ e0 \in 0..Len(v)
      BY <1>1, <1>3
    <3> QED BY <1>1, <1>3, <3>1 DEF IsUpto
  <2>2. Len(v[e0]) # 0
    <3>1. SUFFICES ASSUME Len(v[e0]) = 0 PROVE FALSE
      OBVIOUS
    <3>2. \A k \in (e0 + 1)..Len(v) : Len(v[k]) = 0
      <4>1. ASSUME NEW k \in (e0 + 1)..Len(v) PROVE Len(v[k]) = 0
        <5>1. k \in 1..Len(v) /\ e0 < k
          BY <1>1, <1>3
        <5>2. ~(Len(v[k]) > 0)
          BY <1>3, <1>4, <3>1, <5>1 DEF Omac!EmptyLast
        <5>3. Len(v[k]) \in Nat
          BY <1>1, <5>1
        <5> QED BY <5>2, <5>3
      <4> QED BY <4>1
    <3>3. e0 \in 0..Len(v)
      BY <1>1, <1>3
    <3>4. Omac!TotalLen(v) = h[e0]
      BY <3>2, <3>3, UptoFlat DEF h
    <3>5. h[e0 - 1] + (p0 - 1) = n /\ p0 >= 1 /\ h[e0] = h[e0 - 1]
      BY <1>2, <1>4, <2>1, <3>1
    <3>6. n >= h[e0]
      BY <1>2, <2>1, <3>5
    <3> QED BY <2>1, <3>4, <3>6
  <2>3. p0 \in 1..Len(v[e0])
    BY <1>2, <2>1, <2>2
  <2>4. Omac!Whole(v)[Omac!Upto(v)[e0 - 1] + p0] = v[e0][p0]
    BY <1>3, <2>3, WholeAt
  <2>5. h[e0 - 1] + p0 = n + 1
    BY <1>2, <1>4, <2>1
  <2> QED BY <2>3, <2>4, <2>5 DEF h
<1> QED BY <1>2, <1>3, <1>4

\* Reading a byte takes it on to the next.
LEMMA PointerOn ==
    ASSUME NEW v, IsVector(v), NEW e0, NEW p0, NEW n, n \in Nat,
           PointsAt(v, e0, p0, n), n < Omac!TotalLen(v)
    PROVE  /\ p0 >= Len(v[e0]) => PointsAt(v, e0 + 1, 1, n + 1)
           /\ ~(p0 >= Len(v[e0])) => PointsAt(v, e0, p0 + 1, n + 1)
<1> DEFINE h == Omac!Upto(v)
<1>1. /\ IsUpto(h, v) /\ Len(v) \in Nat /\ \A k \in 1..Len(v) : Len(v[k]) \in Nat
      /\ \A k \in 0..Len(v) : h[k] \in Nat
  BY UptoIs, VectorLens, TotalIs
<1>2. /\ p0 \in Nat \ {0} /\ h[e0 - 1] + (p0 - 1) <= n
      /\ p0 = 1 \/ (e0 \in 1..Len(v) /\ p0 <= Len(v[e0]))
      /\ Omac!EmptyLast(v) => h[e0 - 1] + (p0 - 1) = n
  BY DEF PointsAt
<1>3. e0 \in 1..Len(v) /\ (Omac!EmptyLast(v) => p0 \in 1..Len(v[e0]))
  BY PointerIn
<1> HIDE DEF h
<1>4. Len(v[e0]) \in Nat /\ h[e0] = h[e0 - 1] + Len(v[e0]) /\ h[e0 - 1] \in Nat /\ h[e0] \in Nat
  <2>1. e0 - 1 \in 0..Len(v) /\ e0 \in 0..Len(v)
    BY <1>1, <1>3
  <2> QED BY <1>1, <1>3, <2>1 DEF IsUpto
<1>5. ASSUME p0 >= Len(v[e0]) PROVE PointsAt(v, e0 + 1, 1, n + 1)
  <2>1. e0 + 1 \in 1..(Len(v) + 1) /\ (e0 + 1) - 1 = e0
    BY <1>1, <1>3
  <2>2. h[e0] + (1 - 1) <= n + 1
    BY <1>2, <1>4, <1>5
  <2>3. Omac!EmptyLast(v) => h[e0] + (1 - 1) = n + 1
    BY <1>2, <1>3, <1>4, <1>5
  <2>4. h[(e0 + 1) - 1] = h[e0]
    BY <2>1
  <2> QED BY <2>1, <2>2, <2>3, <2>4 DEF PointsAt, h
<1>6. ASSUME ~(p0 >= Len(v[e0])) PROVE PointsAt(v, e0, p0 + 1, n + 1)
  <2>1. p0 + 1 \in Nat \ {0} /\ (p0 + 1) - 1 = p0 /\ p0 + 1 <= Len(v[e0])
        /\ e0 \in 1..(Len(v) + 1)
    BY <1>1, <1>2, <1>3, <1>4, <1>6
  <2>2. h[e0 - 1] + ((p0 + 1) - 1) <= n + 1
    BY <1>2, <1>4, <2>1
  <2>3. Omac!EmptyLast(v) => h[e0 - 1] + ((p0 + 1) - 1) = n + 1
    BY <1>2, <1>4, <2>1
  <2> QED BY <1>3, <2>1, <2>2, <2>3 DEF PointsAt, h
<1> QED BY <1>5, <1>6

-----------------------------------------------------------------------------
\* How long the data is, how much of it has been read, and the blocks encrypted.
OmacLen == Omac!TotalLen(oVec)
OmacRead == (OmacLen - oLeft) + oI
OmacDone == Len(oChain)
OmacRunning == {"blocks", "rest", "finish"}

\* The types.
OmacTypes ==
    /\ oPc \in {"idle", "init"} \cup OmacRunning
    /\ oCtx = IF oPc \in {"idle", "init"} THEN 0 ELSE 1
    /\ IsVector(oVec)
    /\ oE \in 1..(Len(oVec) + 1) /\ oPos \in Nat \ {0}
    /\ oLeft \in Nat /\ oI \in 0..16
    /\ Omac!IsSeq(oChain)
    /\ Len(oCbc) = 16 /\ oCbc = [j0 \in 1..16 |-> oCbc[j0]]
    /\ oRet \in {0, -1}

\* What is left when, and where the pointer is; all that has been read, but for the block in
\* oCbc, has gone through the cipher.
OmacControl ==
    /\ oPc # "idle" => oMac = Omac!NoBlock
    /\ oPc = "init" =>
         oE = 1 /\ oPos = 1 /\ oLeft = 0 /\ oI = 0 /\ oChain = <<>> /\ oCbc = Omac!ZeroBlock
    /\ oPc = "blocks" /\ oI > 0 => oLeft >= 16
    /\ oPc = "rest" => oLeft < 16 /\ oI <= oLeft /\ (oLeft > 0 \/ OmacLen = 0)
    /\ oPc = "finish" => oLeft < 16 /\ oI = oLeft
    /\ oPc \in OmacRunning =>
         /\ oLeft <= OmacLen
         /\ PointsAt(oVec, oE, oPos, OmacRead)
         /\ \/ OmacLen = (16 * OmacDone) + oLeft /\ (OmacDone > 0 => oLeft > 0)
            \/ OmacLen = (16 * OmacDone) + 16 /\ oLeft = 0 /\ oI = 0 /\ oPc # "rest"

\* Block b is the n bytes of w from o on, and zeros.
FilledFrom(b, w, o, n) ==
    \A j0 \in 1..16 : b[j0] = IF j0 <= n THEN w[o + j0] ELSE Omac!Zero

\* Behind the n bytes there is the mark.
MarkedFrom(b, w, o, n) ==
    \A j0 \in 1..16 : b[j0] = IF j0 <= n THEN w[o + j0]
                              ELSE IF j0 = n + 1 THEN {<<"0x80">>} ELSE Omac!Zero

\* The blocks are those of the data.
OmacData ==
    /\ oPc \in OmacRunning =>
         \A k0 \in 1..OmacDone :
             oChain[k0] = [j0 \in 1..16 |-> Omac!Whole(oVec)[(16 * (k0 - 1)) + j0]]
    /\ oPc \in {"blocks", "rest"} =>
         FilledFrom(oCbc, Omac!Whole(oVec), 16 * OmacDone, OmacRead - (16 * OmacDone))
    /\ oPc = "finish" =>
         MarkedFrom(oCbc, Omac!Whole(oVec), 16 * OmacDone, OmacLen - (16 * OmacDone))

\* The pad is doubled once, and again if the last block is not full.
OmacPads ==
    /\ oPc = "rest" => oSubkey \in OmacSubkeys /\ oPad = Omac!gf_mulx(oSubkey)
    /\ oPc = "finish" =>
         /\ oSubkey \in OmacSubkeys
         /\ oPad = IF OmacLen = (16 * OmacDone) + 16 THEN Omac!gf_mulx(oSubkey)
                   ELSE Omac!gf_mulx(Omac!gf_mulx(oSubkey))

\* The inductive invariant; the data are what is promised only of vectors that have no empty
\* element before others.
OmacInv ==
    OmacTypes /\ OmacControl /\ (Omac!EmptyLast(oVec) => OmacData) /\ OmacPads /\ Omac!MacIsOmac

\* A block with x added to the byte behind n.
Added(b, n, x) == [b EXCEPT ![n + 1] = Omac!Xor(@, x)]

\* Only that byte changes.
LEMMA FillsOn ==
    ASSUME NEW b, Len(b) = 16, b = [j0 \in 1..16 |-> b[j0]], NEW n, n \in 0..15, NEW x
    PROVE  /\ Len(Added(b, n, x)) = 16
           /\ Added(b, n, x) = [j0 \in 1..16 |-> Added(b, n, x)[j0]]
           /\ \A j0 \in 1..16 :
                Added(b, n, x)[j0] = IF j0 = n + 1 THEN Omac!Xor(b[j0], x) ELSE b[j0]
<1> DEFINE D == 1..16
           d == Added(b, n, x)
<1>0. d = [b EXCEPT ![n + 1] = Omac!Xor(@, x)]
  BY DEF Added
<1> HIDE DEF d
<1>1. DOMAIN b = D
  OBVIOUS
<1>2. n + 1 \in D
  OBVIOUS
<1>3. d = [j0 \in D |-> IF j0 = n + 1 THEN Omac!Xor(b[n + 1], x) ELSE b[j0]]
  BY <1>0, <1>1
<1>4. \A j0 \in D : d[j0] = IF j0 = n + 1 THEN Omac!Xor(b[j0], x) ELSE b[j0]
  BY <1>3
<1>5. d = [j0 \in D |-> d[j0]]
  BY <1>3
<1> DEFINE V == {d[j0] : j0 \in D}
<1>6. d \in [1..16 -> V]
  BY <1>5
<1> HIDE DEF V
<1>7. d \in Seq(V) /\ Len(d) = 16
  <2> DEFINE n0 == 16
  <2>1. d \in [1..n0 -> V] /\ n0 \in Nat
    BY <1>6
  <2> HIDE DEF n0
  <2>2. d \in Seq(V) /\ Len(d) = n0
    BY <2>1, SequenceOf, Zenon
  <2> QED BY <2>2 DEF n0
<1> QED BY <1>4, <1>5, <1>7 DEF d

\* Zero adds nothing.
LEMMA ZeroAdds == \A x : Omac!Xor(Omac!Zero, x) = x
  BY DEF Omac!Xor, Omac!Zero

\* A byte more of the data.
LEMMA FilledOn ==
    ASSUME NEW b, Len(b) = 16, b = [j0 \in 1..16 |-> b[j0]], NEW n, n \in 0..15, NEW w, NEW o,
           FilledFrom(b, w, o, n), NEW x, x = w[o + (n + 1)]
    PROVE  FilledFrom(Added(b, n, x), w, o, n + 1)
<1> DEFINE d == Added(b, n, x)
<1>1. \A j0 \in 1..16 : d[j0] = IF j0 = n + 1 THEN Omac!Xor(b[j0], x) ELSE b[j0]
  BY FillsOn
<1> HIDE DEF d
<1>2. ASSUME NEW j0 \in 1..16
      PROVE  d[j0] = IF j0 <= n + 1 THEN w[o + j0] ELSE Omac!Zero
  <2>1. b[j0] = IF j0 <= n THEN w[o + j0] ELSE Omac!Zero
    BY DEF FilledFrom
  <2>2. CASE j0 = n + 1
    <3>1. b[j0] = Omac!Zero /\ d[j0] = Omac!Xor(b[j0], x)
      BY <1>1, <2>1, <2>2
    <3>2. d[j0] = x
      BY <3>1, ZeroAdds
    <3> QED BY <2>2, <3>2
  <2>3. CASE j0 # n + 1
    <3>1. d[j0] = b[j0] /\ (j0 <= n + 1 <=> j0 <= n)
      BY <1>1, <2>3
    <3> QED BY <2>1, <3>1
  <2> QED BY <2>2, <2>3
<1> QED BY <1>2 DEF FilledFrom, d

\* The mark behind the data.
LEMMA MarkedOn ==
    ASSUME NEW b, Len(b) = 16, b = [j0 \in 1..16 |-> b[j0]], NEW n, n \in 0..15, NEW w, NEW o,
           FilledFrom(b, w, o, n)
    PROVE  MarkedFrom(Added(b, n, {<<"0x80">>}), w, o, n)
<1> DEFINE x == {<<"0x80">>}
           d == Added(b, n, x)
<1> HIDE DEF x
<1>1. \A j0 \in 1..16 : d[j0] = IF j0 = n + 1 THEN Omac!Xor(b[j0], x) ELSE b[j0]
  BY FillsOn
<1> HIDE DEF d
<1>2. ASSUME NEW j0 \in 1..16
      PROVE  d[j0] = IF j0 <= n THEN w[o + j0] ELSE IF j0 = n + 1 THEN x ELSE Omac!Zero
  <2>1. b[j0] = IF j0 <= n THEN w[o + j0] ELSE Omac!Zero
    BY DEF FilledFrom
  <2>2. CASE j0 = n + 1
    <3>1. b[j0] = Omac!Zero /\ d[j0] = Omac!Xor(b[j0], x) /\ ~(j0 <= n)
      BY <1>1, <2>1, <2>2
    <3>2. d[j0] = x
      BY <3>1, ZeroAdds
    <3> QED BY <2>2, <3>1, <3>2
  <2>3. CASE j0 # n + 1
    <3>1. d[j0] = b[j0]
      BY <1>1, <2>3
    <3> QED BY <2>1, <2>3, <3>1
  <2> QED BY <2>2, <2>3
<1> QED BY <1>2 DEF MarkedFrom, d, x

-----------------------------------------------------------------------------
\* The empty vector, and a block of zeros.
LEMMA EmptyVector == IsVector(<<>>) /\ Len(<<>>) = 0 /\ Omac!IsSeq(<<>>)
<1>1. Len(<<>>) = 0
  OBVIOUS
<1>2. <<>> = [p \in 1..0 |-> <<>>[p]]
  OBVIOUS
<1> QED BY <1>1, <1>2 DEF IsVector, Omac!IsSeq

\* A block of zeros.
LEMMA ZeroIs ==
    LET b == Omac!ZeroBlock
    IN  Len(b) = 16 /\ b = [j0 \in 1..16 |-> b[j0]] /\ \A j0 \in 1..16 : b[j0] = Omac!Zero
<1> DEFINE b == Omac!ZeroBlock
           n == 16
           V == {Omac!Zero}
<1>1. b = [j0 \in 1..n |-> Omac!Zero]
  BY DEF Omac!ZeroBlock, Omac!Block
<1>2. b = [j0 \in 1..n |-> b[j0]] /\ \A j0 \in 1..n : b[j0] = Omac!Zero
  BY <1>1
<1> HIDE DEF b
<1>3. b \in [1..n -> V] /\ n \in Nat
  BY <1>1
<1> HIDE DEF n, V
<1>4. Len(b) = n
  BY <1>3, SequenceOf, Zenon
<1> QED BY <1>2, <1>4 DEF n, b

\* The numbers of the invariant.
LEMMA OmacFacts ==
    ASSUME OmacInv
    PROVE  OmacLen \in Nat /\ OmacDone \in Nat /\ oLeft \in Nat /\ oI \in 0..16
  BY TotalIs DEF OmacInv, OmacTypes, OmacLen, OmacDone, Omac!IsSeq

\* It holds before the first call,
LEMMA OmacStarts ==
    ASSUME Omac!Init PROVE OmacInv
<1>1. /\ oPc = "idle" /\ oVec = <<>> /\ oCtx = 0 /\ oE = 1 /\ oPos = 1 /\ oLeft = 0 /\ oI = 0
      /\ oChain = <<>> /\ oCbc = Omac!ZeroBlock /\ oMac = Omac!NoBlock /\ oRet = 0
  BY DEF Omac!Init
<1>2. OmacTypes
  BY <1>1, EmptyVector, ZeroIs DEF OmacTypes, OmacRunning
<1>3. OmacControl /\ OmacData /\ OmacPads /\ Omac!MacIsOmac
  BY <1>1 DEF OmacControl, OmacRunning, OmacData, OmacPads, Omac!MacIsOmac
<1> QED BY <1>2, <1>3 DEF OmacInv

\* a call begins with it,
LEMMA OmacCallStep ==
    ASSUME Omac!Inputs, OmacInv, NEW v0 \in Vectors, Omac!Call(v0) PROVE OmacInv'
<1>1. /\ oPc' = "init" /\ oVec' = v0 /\ oE' = 1 /\ oPos' = 1 /\ oLeft' = 0 /\ oI' = 0
      /\ oChain' = <<>> /\ oCbc' = Omac!ZeroBlock /\ oMac' = Omac!NoBlock
      /\ oCtx' = 0 /\ oRet' \in {0, -1}
  BY DEF Omac!Call, OmacInv, OmacTypes
<1>2. IsVector(v0) /\ Len(v0) \in Nat
  BY VectorLens DEF Omac!Inputs, IsVector, Omac!IsSeq
<1>3. OmacTypes'
  BY <1>1, <1>2, EmptyVector, ZeroIs DEF OmacTypes, OmacRunning
<1>4. OmacControl' /\ OmacData' /\ OmacPads' /\ Omac!MacIsOmac'
  BY <1>1 DEF OmacControl, OmacRunning, OmacData, OmacPads, Omac!MacIsOmac
<1> QED BY <1>3, <1>4 DEF OmacInv

\* and it gets a context or not.
LEMMA OmacInitStep ==
    ASSUME OmacInv, Omac!InitFails \/ Omac!InitSucceeds PROVE OmacInv'
<1>0. OmacLen \in Nat /\ Len(oVec) \in Nat
  BY OmacFacts, VectorLens DEF OmacInv, OmacTypes
<1>1. /\ oPc = "init" /\ oE = 1 /\ oPos = 1 /\ oLeft = 0 /\ oI = 0
      /\ oChain = <<>> /\ oCbc = Omac!ZeroBlock /\ oMac = Omac!NoBlock /\ oCtx = 0
      /\ UNCHANGED <<oVec, oE, oPos, oI, oChain, oCbc, oMac>>
  BY DEF Omac!InitFails, Omac!InitSucceeds, Omac!pointer, OmacInv, OmacControl, OmacTypes
<1>2. CASE Omac!InitFails
  <2>1. oPc' = "idle" /\ UNCHANGED <<oLeft, oCtx>> /\ oRet' = -1
    BY <1>2 DEF Omac!InitFails
  <2>2. OmacTypes'
    BY <1>1, <2>1 DEF OmacInv, OmacTypes, OmacRunning
  <2>3. OmacControl' /\ OmacData' /\ OmacPads' /\ Omac!MacIsOmac'
    BY <1>1, <2>1 DEF OmacControl, OmacRunning, OmacData, OmacPads, Omac!MacIsOmac
  <2> QED BY <2>2, <2>3 DEF OmacInv
<1>3. CASE Omac!InitSucceeds
  <2>1. oPc' = "blocks" /\ oLeft' = OmacLen /\ oCtx' = 1 /\ UNCHANGED oRet
    BY <1>1, <1>3 DEF Omac!InitSucceeds, OmacLen
  <2>2. OmacTypes'
    BY <1>0, <1>1, <2>1 DEF OmacInv, OmacTypes, OmacRunning
  <2>3. OmacLen' = OmacLen /\ OmacDone' = 0 /\ OmacRead' = 0
    BY <1>0, <1>1, <2>1, EmptyVector DEF OmacLen, OmacDone, OmacRead
  <2>4. PointsAt(oVec, 1, 1, 0)
    <3>1. IsUpto(Omac!Upto(oVec), oVec)
      BY UptoIs DEF OmacInv, OmacTypes
    <3>2. Omac!Upto(oVec)[1 - 1] + (1 - 1) = 0
      BY <3>1 DEF IsUpto
    <3> QED BY <1>0, <3>2 DEF PointsAt
  <2>5. OmacControl'
    BY <1>0, <1>1, <2>1, <2>3, <2>4 DEF OmacControl, OmacRunning
  <2>6. OmacData'
    <3>1. \A j0 \in 1..16 : oCbc'[j0] = IF j0 <= 0 THEN Omac!Whole(oVec)[0 + j0] ELSE Omac!Zero
      BY <1>1, ZeroIs
    <3>2. 16 * OmacDone' = 0 /\ OmacRead' - (16 * OmacDone') = 0
      BY <2>3
    <3>3. FilledFrom(oCbc', Omac!Whole(oVec'), 0, 0)
      BY <1>1, <3>1 DEF FilledFrom
    <3>4. FilledFrom(oCbc', Omac!Whole(oVec'), 16 * OmacDone', OmacRead' - (16 * OmacDone'))
      BY <3>2, <3>3
    <3> QED BY <2>1, <2>3, <3>4 DEF OmacData
  <2>7. OmacPads' /\ Omac!MacIsOmac'
    BY <1>1, <2>1 DEF OmacPads, Omac!MacIsOmac
  <2> QED BY <2>2, <2>5, <2>6, <2>7 DEF OmacInv
<1> QED BY <1>2, <1>3

-----------------------------------------------------------------------------
\* A byte of the data is added to the block.
LEMMA OmacByteStep ==
    ASSUME OmacInv, Omac!AddByte PROVE OmacInv'
<1> DEFINE w == Omac!Whole(oVec)
           o == 16 * OmacDone
           x == Omac!ByteAt
           last == oPos >= Omac!ElementLen
<1>0. /\ OmacLen \in Nat /\ OmacDone \in Nat /\ oLeft \in Nat /\ oI \in 0..16
      /\ IsVector(oVec) /\ Len(oVec) \in Nat
  BY OmacFacts, VectorLens DEF OmacInv, OmacTypes
<1>1. /\ oPc \in {"blocks", "rest"} /\ oI < Omac!ToRead /\ oI' = oI + 1
      /\ oCbc' = Added(oCbc, oI, x)
      /\ IF last THEN oE' = oE + 1 /\ oPos' = 1 ELSE oE' = oE /\ oPos' = oPos + 1
      /\ UNCHANGED <<oPc, oVec, oCtx, oLeft, oChain, oSubkey, oPad, oMac, oRet>>
  BY DEF Omac!AddByte, Added
<1>2. oI + 1 <= oLeft /\ oI \in 0..15 /\ (oPc = "blocks" => oLeft >= 16)
  BY <1>0, <1>1 DEF Omac!ToRead, Omac!Block, OmacInv, OmacControl
<1>3. /\ OmacLen = o + oLeft /\ (OmacDone > 0 => oLeft > 0) /\ oLeft <= OmacLen
      /\ PointsAt(oVec, oE, oPos, OmacRead) /\ o \in Nat
      /\ oMac = Omac!NoBlock
  BY <1>0, <1>1, <1>2 DEF OmacInv, OmacControl, OmacRunning
<1> HIDE DEF w, x, last
<1>4. OmacRead = o + oI /\ OmacRead \in Nat /\ OmacRead < OmacLen
  BY <1>0, <1>2, <1>3 DEF OmacRead
<1>5. /\ oE \in 1..Len(oVec) /\ oPos \in Nat \ {0}
      /\ Omac!EmptyLast(oVec) => oPos \in 1..Len(oVec[oE]) /\ w[OmacRead + 1] = oVec[oE][oPos]
  BY <1>0, <1>3, <1>4, PointerIn DEF OmacLen, w
<1>6. Omac!ElementLen = Len(oVec[oE]) /\ Len(oVec[oE]) \in Nat
  BY <1>0, <1>5, VectorLens DEF Omac!ElementLen
<1>7. PointsAt(oVec, oE', oPos', OmacRead + 1)
  BY <1>0, <1>1, <1>3, <1>4, <1>6, PointerOn DEF OmacLen, last
<1>8. OmacLen' = OmacLen /\ OmacDone' = OmacDone /\ OmacRead' = OmacRead + 1
  BY <1>0, <1>1, <1>2, <1>3 DEF OmacLen, OmacDone, OmacRead
<1>9. Len(oCbc) = 16 /\ oCbc = [j0 \in 1..16 |-> oCbc[j0]]
  BY DEF OmacInv, OmacTypes
<1>10. Len(oCbc') = 16 /\ oCbc' = [j0 \in 1..16 |-> oCbc'[j0]]
  BY <1>1, <1>2, <1>9, FillsOn
<1>11. OmacTypes'
  <2>1. oE' \in 1..(Len(oVec') + 1) /\ oPos' \in Nat \ {0}
    BY <1>0, <1>1, <1>5
  <2>2. oI' \in 0..16
    BY <1>1, <1>2
  <2> QED BY <1>1, <1>10, <2>1, <2>2 DEF OmacInv, OmacTypes
<1>12. OmacControl'
  <2>1. PointsAt(oVec', oE', oPos', OmacRead')
    BY <1>1, <1>7, <1>8
  <2>2. oPc' = "blocks" /\ oI' > 0 => oLeft' >= 16
    BY <1>1, <1>2
  <2>3. oPc' = "rest" => oLeft' < 16 /\ oI' <= oLeft' /\ (oLeft' > 0 \/ OmacLen' = 0)
    BY <1>0, <1>1, <1>2, <1>8 DEF OmacInv, OmacControl
  <2>4. oLeft' <= OmacLen' /\ OmacLen' = (16 * OmacDone') + oLeft' /\ (OmacDone' > 0 => oLeft' > 0)
    BY <1>1, <1>3, <1>8
  <2>5. oMac' = Omac!NoBlock /\ oPc' \in {"blocks", "rest"}
    BY <1>1, <1>3
  <2> QED BY <2>1, <2>2, <2>3, <2>4, <2>5 DEF OmacControl
<1>13. ASSUME Omac!EmptyLast(oVec) PROVE OmacData'
  <2>1. FilledFrom(oCbc, w, o, oI)
    <3>1. OmacData
      BY <1>13 DEF OmacInv
    <3>2. FilledFrom(oCbc, w, o, OmacRead - o)
      BY <1>1, <3>1 DEF OmacData, w
    <3>3. OmacRead - o = oI
      BY <1>0, <1>3, <1>4
    <3> QED BY <3>2, <3>3
  <2>2. x = w[o + (oI + 1)]
    <3>1. x = oVec[oE][oPos]
      BY <1>5, <1>6, <1>13 DEF x, Omac!ByteAt
    <3>2. OmacRead + 1 = o + (oI + 1)
      BY <1>0, <1>3, <1>4
    <3> QED BY <1>5, <1>13, <3>1, <3>2
  <2>3. FilledFrom(oCbc', w, o, oI + 1)
    BY <1>1, <1>2, <1>9, <2>1, <2>2, FilledOn
  <2>4. OmacRead' - (16 * OmacDone') = oI + 1 /\ 16 * OmacDone' = o
    BY <1>0, <1>3, <1>4, <1>8
  <2>5. FilledFrom(oCbc', Omac!Whole(oVec'), 16 * OmacDone', OmacRead' - (16 * OmacDone'))
    BY <1>1, <2>3, <2>4 DEF w
  <2>6. \A k0 \in 1..OmacDone' :
             oChain'[k0] = [j0 \in 1..16 |-> Omac!Whole(oVec')[(16 * (k0 - 1)) + j0]]
    BY <1>1, <1>8, <1>13 DEF OmacInv, OmacData, OmacRunning
  <2> QED BY <1>1, <2>5, <2>6 DEF OmacData
<1>14. OmacPads'
  BY <1>1, <1>8 DEF OmacInv, OmacPads
<1>15. Omac!MacIsOmac'
  BY <1>1, <1>3 DEF Omac!MacIsOmac
<1>16. Omac!EmptyLast(oVec') => OmacData'
  BY <1>1, <1>13
<1> QED BY <1>11, <1>12, <1>14, <1>15, <1>16 DEF OmacInv

\* A full block goes through the cipher, unless it is the last one.
LEMMA OmacBlockStep ==
    ASSUME OmacInv, Omac!BlockDone PROVE OmacInv'
<1> DEFINE w == Omac!Whole(oVec)
<1>0. /\ OmacLen \in Nat /\ OmacDone \in Nat /\ oLeft \in Nat /\ oI \in 0..16
      /\ IsVector(oVec) /\ Len(oVec) \in Nat
  BY OmacFacts, VectorLens DEF OmacInv, OmacTypes
<1>1. /\ oPc = "blocks" /\ oI = 16 /\ oI' = 0 /\ oLeft' = oLeft - 16
      /\ IF oLeft > 16 THEN oChain' = Append(oChain, oCbc) /\ oCbc' = Omac!ZeroBlock
         ELSE UNCHANGED <<oChain, oCbc>>
      /\ UNCHANGED <<oPc, oVec, oCtx, oE, oPos, oSubkey, oPad, oMac, oRet>>
  BY DEF Omac!BlockDone, Omac!Block
<1>2. /\ oLeft >= 16 /\ oLeft <= OmacLen /\ PointsAt(oVec, oE, oPos, OmacRead)
      /\ OmacLen = (16 * OmacDone) + oLeft /\ oMac = Omac!NoBlock
  BY <1>0, <1>1 DEF OmacInv, OmacControl, OmacRunning
<1>3. /\ Omac!IsSeq(oChain) /\ Len(oCbc) = 16 /\ oCbc = [j0 \in 1..16 |-> oCbc[j0]]
  BY DEF OmacInv, OmacTypes
<1> HIDE DEF w
<1>4. OmacLen' = OmacLen /\ OmacRead' = OmacRead
  BY <1>0, <1>1, <1>2 DEF OmacLen, OmacRead
<1>5. OmacRead = (16 * OmacDone) + 16
  BY <1>0, <1>1, <1>2 DEF OmacRead
<1>6. CASE oLeft > 16
  <2>1. /\ Omac!IsSeq(oChain') /\ OmacDone' = OmacDone + 1
        /\ oChain'[OmacDone + 1] = oCbc
        /\ \A k0 \in 1..OmacDone : oChain'[k0] = oChain[k0]
    <3> DEFINE V == {oChain[k0] : k0 \in 1..OmacDone} \cup {oCbc}
    <3>1. OmacDone \in Nat /\ oChain = [k0 \in 1..OmacDone |-> oChain[k0]]
      BY <1>0, <1>3 DEF Omac!IsSeq, OmacDone
    <3>2. oChain \in [1..OmacDone -> V] /\ oCbc \in V
      BY <3>1
    <3> HIDE DEF V
    <3>3. oChain \in Seq(V)
      BY <3>1, <3>2, SequenceOf, Zenon
    <3>4. oChain' = Append(oChain, oCbc)
      BY <1>1, <1>6
    <3>5. /\ oChain' \in Seq(V) /\ Len(oChain') = Len(oChain) + 1
          /\ oChain'[Len(oChain) + 1] = oCbc
          /\ \A k0 \in 1..Len(oChain) : oChain'[k0] = oChain[k0]
      BY <3>2, <3>3, <3>4
    <3>6. Omac!IsSeq(oChain')
      BY <3>5 DEF Omac!IsSeq
    <3> QED BY <3>5, <3>6 DEF OmacDone
  <2>2. OmacTypes'
    <3>1. Len(oCbc') = 16 /\ oCbc' = [j0 \in 1..16 |-> oCbc'[j0]]
      BY <1>1, <1>6, ZeroIs
    <3>2. oLeft' \in Nat /\ oI' \in 0..16
      BY <1>0, <1>1, <1>6
    <3> QED BY <1>1, <2>1, <3>1, <3>2 DEF OmacInv, OmacTypes
  <2>3. OmacControl'
    <3>1. oLeft' > 0 /\ oLeft' <= OmacLen' /\ OmacLen' = (16 * OmacDone') + oLeft'
      BY <1>0, <1>1, <1>2, <1>4, <1>6, <2>1
    <3>2. /\ PointsAt(oVec', oE', oPos', OmacRead') /\ oPc' = "blocks" /\ oI' = 0
          /\ oMac' = Omac!NoBlock
      BY <1>1, <1>2, <1>4
    <3> QED BY <3>1, <3>2 DEF OmacControl
  <2>4. ASSUME Omac!EmptyLast(oVec) PROVE OmacData'
    <3>1. OmacData
      BY <2>4 DEF OmacInv
    <3>2. \A k0 \in 1..OmacDone : oChain[k0] = [j0 \in 1..16 |-> w[(16 * (k0 - 1)) + j0]]
      BY <1>1, <3>1 DEF OmacData, OmacRunning, w
    <3>3. FilledFrom(oCbc, w, 16 * OmacDone, 16)
      <4>1. FilledFrom(oCbc, w, 16 * OmacDone, OmacRead - (16 * OmacDone))
        BY <1>1, <3>1 DEF OmacData, w
      <4>2. OmacRead - (16 * OmacDone) = 16
        BY <1>0, <1>5
      <4> QED BY <4>1, <4>2
    <3>4. oCbc = [j0 \in 1..16 |-> w[(16 * OmacDone) + j0]]
      <4>1. \A j0 \in 1..16 : oCbc[j0] = w[(16 * OmacDone) + j0]
        BY <3>3 DEF FilledFrom
      <4> QED BY <1>3, <4>1
    <3>5. ASSUME NEW k0 \in 1..OmacDone'
          PROVE  oChain'[k0] = [j0 \in 1..16 |-> Omac!Whole(oVec')[(16 * (k0 - 1)) + j0]]
      <4>0. Omac!Whole(oVec') = w
        BY <1>1 DEF w
      <4>1. CASE k0 = OmacDone + 1
        <5>1. k0 - 1 = OmacDone /\ oChain'[k0] = oCbc
          BY <1>0, <2>1, <4>1
        <5> QED BY <3>4, <4>0, <5>1
      <4>2. CASE k0 \in 1..OmacDone
        BY <2>1, <3>2, <4>0, <4>2
      <4>3. k0 = OmacDone + 1 \/ k0 \in 1..OmacDone
        BY <1>0, <2>1
      <4> QED BY <4>1, <4>2, <4>3
    <3>6. FilledFrom(oCbc', Omac!Whole(oVec'), 16 * OmacDone', OmacRead' - (16 * OmacDone'))
      <4>1. OmacRead' - (16 * OmacDone') = 0
        BY <1>0, <1>4, <1>5, <2>1
      <4>2. \A j0 \in 1..16 : oCbc'[j0] = Omac!Zero
        BY <1>1, <1>6, ZeroIs
      <4> HIDE <1>4, <2>1
      <4>3. \A j0 \in 1..16 : ~(j0 <= 0)
        OBVIOUS
      <4> QED BY <4>1, <4>2, <4>3 DEF FilledFrom
    <3> QED BY <1>1, <3>5, <3>6 DEF OmacData
  <2>5. OmacPads' /\ Omac!MacIsOmac'
    BY <1>1, <1>2 DEF OmacPads, Omac!MacIsOmac
  <2>6. Omac!EmptyLast(oVec') => OmacData'
    BY <1>1, <2>4
  <2> QED BY <2>2, <2>3, <2>5, <2>6 DEF OmacInv
<1>7. CASE ~(oLeft > 16)
  <2>1. oLeft = 16 /\ oLeft' = 0 /\ UNCHANGED <<oChain, oCbc>> /\ OmacDone' = OmacDone
    BY <1>0, <1>1, <1>2, <1>7 DEF OmacDone
  <2>2. OmacTypes'
    BY <1>1, <2>1 DEF OmacInv, OmacTypes
  <2>3. OmacControl'
    <3>1. OmacLen' = (16 * OmacDone') + 16 /\ oLeft' <= OmacLen'
      BY <1>0, <1>2, <1>4, <2>1
    <3>2. /\ PointsAt(oVec', oE', oPos', OmacRead') /\ oPc' = "blocks" /\ oI' = 0
          /\ oMac' = Omac!NoBlock
      BY <1>1, <1>2, <1>4
    <3> QED BY <2>1, <3>1, <3>2 DEF OmacControl
  <2>4. Omac!EmptyLast(oVec') => OmacData'
    BY <1>1, <1>4, <2>1 DEF OmacInv, OmacData, OmacRunning
  <2>5. OmacPads' /\ Omac!MacIsOmac'
    BY <1>1, <1>2 DEF OmacPads, Omac!MacIsOmac
  <2> QED BY <2>2, <2>3, <2>4, <2>5 DEF OmacInv
<1> QED BY <1>6, <1>7

-----------------------------------------------------------------------------
\* The pad is made when no full block is left to be encrypted.
LEMMA OmacPadStep ==
    ASSUME OmacInv, Omac!MakePad PROVE OmacInv'
<1>0. /\ OmacLen \in Nat /\ OmacDone \in Nat /\ oLeft \in Nat /\ oI \in 0..16
  BY OmacFacts
<1>1. /\ oPc = "blocks" /\ oLeft < 16 /\ oI = 0
      /\ oPc' = IF oLeft > 0 \/ OmacLen = 0 THEN "rest" ELSE "finish"
      /\ oSubkey' \in OmacSubkeys /\ oPad' = Omac!gf_mulx(oSubkey')
      /\ UNCHANGED <<oVec, oCtx, oE, oPos, oI, oCbc, oLeft, oChain, oMac, oRet>>
  BY DEF Omac!MakePad, Omac!Block, Omac!pointer, OmacLen
<1>2. /\ oLeft <= OmacLen /\ PointsAt(oVec, oE, oPos, OmacRead) /\ oMac = Omac!NoBlock
      /\ \/ OmacLen = (16 * OmacDone) + oLeft /\ (OmacDone > 0 => oLeft > 0)
         \/ OmacLen = (16 * OmacDone) + 16 /\ oLeft = 0
  BY <1>1 DEF OmacInv, OmacControl, OmacRunning
<1>3. OmacLen' = OmacLen /\ OmacDone' = OmacDone /\ OmacRead' = OmacRead
  BY <1>1 DEF OmacLen, OmacDone, OmacRead
<1>4. OmacTypes'
  BY <1>1 DEF OmacInv, OmacTypes, OmacRunning
<1>5. Omac!MacIsOmac'
  BY <1>1, <1>2 DEF Omac!MacIsOmac
<1>6. CASE oLeft > 0 \/ OmacLen = 0
  <2>1. oPc' = "rest" /\ OmacLen = (16 * OmacDone) + oLeft
    BY <1>0, <1>1, <1>2, <1>6
  <2>2. OmacControl'
    BY <1>0, <1>1, <1>2, <1>3, <1>6, <2>1 DEF OmacControl
  <2>3. Omac!EmptyLast(oVec') => OmacData'
    BY <1>1, <1>3, <2>1 DEF OmacInv, OmacData, OmacRunning
  <2>4. OmacPads'
    BY <1>1, <2>1 DEF OmacPads
  <2> QED BY <1>4, <1>5, <2>2, <2>3, <2>4 DEF OmacInv
<1>7. CASE ~(oLeft > 0 \/ OmacLen = 0)
  <2>1. oPc' = "finish" /\ oLeft = 0 /\ OmacLen = (16 * OmacDone) + 16
    BY <1>0, <1>1, <1>2, <1>7
  <2>2. OmacControl'
    BY <1>0, <1>1, <1>2, <1>3, <2>1 DEF OmacControl
  <2>3. ASSUME Omac!EmptyLast(oVec) PROVE OmacData'
    <3>1. OmacRead - (16 * OmacDone) = 16 /\ OmacLen - (16 * OmacDone) = 16
      BY <1>0, <1>1, <2>1 DEF OmacRead
    <3>2. FilledFrom(oCbc, Omac!Whole(oVec), 16 * OmacDone, OmacRead - (16 * OmacDone))
      BY <1>1, <2>3 DEF OmacInv, OmacData
    <3>3. FilledFrom(oCbc, Omac!Whole(oVec), 16 * OmacDone, 16)
      BY <3>1, <3>2
    <3>4. MarkedFrom(oCbc, Omac!Whole(oVec), 16 * OmacDone, 16)
      BY <3>3 DEF FilledFrom, MarkedFrom
    <3>5. MarkedFrom(oCbc, Omac!Whole(oVec), 16 * OmacDone, OmacLen - (16 * OmacDone))
      BY <3>1, <3>4
    <3> QED BY <1>1, <1>3, <2>1, <2>3, <3>5 DEF OmacInv, OmacData, OmacRunning
  <2>4. Omac!EmptyLast(oVec') => OmacData'
    BY <1>1, <2>3
  <2>5. OmacPads'
    BY <1>1, <1>3, <2>1 DEF OmacPads
  <2> QED BY <1>4, <1>5, <2>2, <2>4, <2>5 DEF OmacInv
<1> QED BY <1>6, <1>7

\* The last block is not full: it gets the mark, and the pad is doubled again.
LEMMA OmacRestStep ==
    ASSUME OmacInv, Omac!RestDone PROVE OmacInv'
<1> DEFINE w == Omac!Whole(oVec)
           o == 16 * OmacDone
<1>0. /\ OmacLen \in Nat /\ OmacDone \in Nat /\ oLeft \in Nat /\ oI \in 0..16
  BY OmacFacts
<1>1. /\ oPc = "rest" /\ oI = oLeft /\ oPc' = "finish"
      /\ oCbc' = Added(oCbc, oLeft, {<<"0x80">>}) /\ oPad' = Omac!gf_mulx(oPad)
      /\ UNCHANGED <<oVec, oCtx, oE, oPos, oI, oLeft, oChain, oSubkey, oMac, oRet>>
  BY DEF Omac!RestDone, Added
<1>2. /\ oLeft < 16 /\ oLeft <= OmacLen /\ PointsAt(oVec, oE, oPos, OmacRead)
      /\ oMac = Omac!NoBlock /\ OmacLen = o + oLeft /\ (OmacDone > 0 => oLeft > 0)
      /\ oLeft \in 0..15
  BY <1>0, <1>1 DEF OmacInv, OmacControl, OmacRunning
<1>3. OmacLen' = OmacLen /\ OmacDone' = OmacDone /\ OmacRead' = OmacRead
  BY <1>1 DEF OmacLen, OmacDone, OmacRead
<1>4. Len(oCbc) = 16 /\ oCbc = [j0 \in 1..16 |-> oCbc[j0]]
  BY DEF OmacInv, OmacTypes
<1> HIDE DEF w
<1>5. Len(oCbc') = 16 /\ oCbc' = [j0 \in 1..16 |-> oCbc'[j0]]
  BY <1>1, <1>2, <1>4, FillsOn
<1>6. OmacTypes'
  BY <1>1, <1>5 DEF OmacInv, OmacTypes, OmacRunning
<1>7. OmacControl'
  BY <1>0, <1>1, <1>2, <1>3 DEF OmacControl
<1>8. ASSUME Omac!EmptyLast(oVec) PROVE OmacData'
  <2>1. OmacRead - o = oLeft /\ OmacLen - o = oLeft
    BY <1>0, <1>1, <1>2 DEF OmacRead
  <2>2. FilledFrom(oCbc, w, o, OmacRead - o)
    BY <1>1, <1>8 DEF OmacInv, OmacData, w
  <2>3. FilledFrom(oCbc, w, o, oLeft)
    BY <2>1, <2>2
  <2>4. MarkedFrom(oCbc', w, o, oLeft)
    BY <1>1, <1>2, <1>4, <2>3, MarkedOn
  <2>5. MarkedFrom(oCbc', w, o, OmacLen - o)
    BY <2>1, <2>4
  <2> QED BY <1>1, <1>3, <1>8, <2>5 DEF OmacInv, OmacData, OmacRunning, w
<1>9. Omac!EmptyLast(oVec') => OmacData'
  BY <1>1, <1>8
<1>10. OmacPads'
  <2>1. OmacLen # (16 * OmacDone) + 16
    BY <1>0, <1>2
  <2>2. oSubkey \in OmacSubkeys /\ oPad = Omac!gf_mulx(oSubkey)
    BY <1>1 DEF OmacInv, OmacPads
  <2> QED BY <1>1, <1>3, <2>1, <2>2 DEF OmacPads
<1>11. Omac!MacIsOmac'
  BY <1>1, <1>2 DEF Omac!MacIsOmac
<1> QED BY <1>6, <1>7, <1>9, <1>10, <1>11 DEF OmacInv

-----------------------------------------------------------------------------
\* The blocks that the definition makes of a message.
MessageBlocks(w) == IF Len(w) = 0 THEN <<Omac!ZeroBlock>> ELSE Omac!PaddedBlocks(w)
BlockFrom(w, k) ==
    [j0 \in 1..16 |-> IF (16 * (k - 1)) + j0 <= Len(w) THEN w[(16 * (k - 1)) + j0] ELSE Omac!Zero]

\* The blocks of a message, the last one filled up.
LEMMA MessageBlocksAre ==
    ASSUME NEW w, NEW c, c \in Nat, Len(w) \in Nat, 16 * c <= Len(w), Len(w) <= (16 * c) + 16,
           Len(w) = 16 * c => c = 0
    PROVE  /\ Len(MessageBlocks(w)) = c + 1
           /\ MessageBlocks(w) = [k \in 1..(c + 1) |-> BlockFrom(w, k)]
<1>1. CASE Len(w) = 0
  <2>1. c = 0
    BY <1>1
  <2>2. MessageBlocks(w) = <<Omac!ZeroBlock>>
    BY <1>1 DEF MessageBlocks
  <2>3. BlockFrom(w, 1) = Omac!ZeroBlock
    <3>1. \A j0 \in 1..16 : ~((16 * (1 - 1)) + j0 <= Len(w))
      BY <1>1
    <3> QED BY <3>1 DEF BlockFrom, Omac!ZeroBlock, Omac!Block
  <2> DEFINE B(k) == BlockFrom(w, k)
  <2> HIDE DEF B
  <2>4. <<B(1)>> = [k \in 1..1 |-> B(k)] /\ Len(<<B(1)>>) = 1
    OBVIOUS
  <2>5. B(1) = Omac!ZeroBlock
    BY <2>3 DEF B
  <2>6. MessageBlocks(w) = [k \in 1..1 |-> B(k)] /\ Len(MessageBlocks(w)) = 1
    BY <2>2, <2>4, <2>5
  <2>7. c + 1 = 1
    BY <2>1
  <2> QED BY <2>6, <2>7 DEF B
<1>2. CASE Len(w) # 0
  <2>1. ((Len(w) + 16) - 1) \div 16 = c + 1
    <3>1. Len(w) # 16 * c
      BY <1>2
    <3>2. Len(w) + 15 >= 16 * (c + 1) /\ Len(w) + 15 < (16 * (c + 1)) + 16
      BY <3>1
    <3> QED BY <3>2
  <2>2. MessageBlocks(w) = [k \in 1..(((Len(w) + 16) - 1) \div 16) |-> BlockFrom(w, k)]
    BY <1>2 DEF MessageBlocks, Omac!PaddedBlocks, BlockFrom, Omac!Block
  <2> DEFINE B(k) == BlockFrom(w, k)
             V == {B(k) : k \in 1..(c + 1)}
             n == c + 1
  <2>3. MessageBlocks(w) = [k \in 1..n |-> B(k)] /\ n \in Nat
    BY <2>1, <2>2
  <2> HIDE DEF B
  <2>4. MessageBlocks(w) \in [1..n -> V]
    BY <2>3
  <2> HIDE DEF V, n
  <2>5. Len(MessageBlocks(w)) = n
    BY <2>3, <2>4, SequenceOf, Zenon
  <2> QED BY <2>3, <2>5 DEF n, B
<1> QED BY <1>1, <1>2

\* The first c elements of a longer sequence.
LEMMA FirstOnes ==
    ASSUME NEW S0, NEW c \in Nat, NEW u \in Seq(S0), Len(u) = c + 1
    PROVE  SubSeq(u, 1, c) = [k \in 1..c |-> u[k]]
  OBVIOUS

\* Finishing gives what OMAC1 is defined to be.
LEMMA OmacFinishStep ==
    ASSUME Omac!Inputs, OmacInv, Omac!Finish PROVE OmacInv'
<1> DEFINE w == Omac!Whole(oVec)
           o == 16 * OmacDone
           c == OmacDone
           full == OmacLen = (16 * OmacDone) + 16
<1>0. /\ OmacLen \in Nat /\ OmacDone \in Nat /\ oLeft \in Nat /\ oI \in 0..16
      /\ IsVector(oVec)
  BY OmacFacts DEF OmacInv, OmacTypes
<1>1. /\ oPc = "finish" /\ oPc' = "idle" /\ oRet' = 0 /\ oCtx' = oCtx - 1
      /\ oMac' = [chain |-> oChain, last |-> oCbc, pad |-> oPad]
      /\ UNCHANGED <<oVec, oE, oPos, oI, oCbc, oLeft, oChain, oSubkey, oPad>>
  BY DEF Omac!Finish, Omac!pointer
<1>2. /\ oLeft < 16
      /\ \/ OmacLen = (16 * OmacDone) + oLeft /\ (OmacDone > 0 => oLeft > 0)
         \/ full
  BY <1>1 DEF OmacInv, OmacControl, OmacRunning
<1>3. /\ oSubkey \in Pads
      /\ oPad = IF full THEN Omac!gf_mulx(oSubkey) ELSE Omac!gf_mulx(Omac!gf_mulx(oSubkey))
  BY <1>1 DEF OmacInv, OmacPads, Omac!Inputs, Pads, Omac!Block, Omac!Byte, Byte
<1>4. OmacTypes'
  BY <1>0, <1>1 DEF OmacInv, OmacTypes, OmacRunning
<1>5. OmacControl' /\ OmacData' /\ OmacPads'
  BY <1>1 DEF OmacControl, OmacData, OmacPads, OmacRunning
<1>6. Len(w) = OmacLen
  BY <1>0, WholeLen DEF OmacLen
<1>7. ASSUME Omac!EmptyLast(oVec)
      PROVE  Omac!OmacIs(w, oSubkey, [chain |-> oChain, last |-> oCbc, pad |-> oPad])
  <2> DEFINE blocks == MessageBlocks(w)
             whole == Len(w) > 0 /\ Len(w) % 16 = 0
             r0 == [chain |-> oChain, last |-> oCbc, pad |-> oPad]
  <2>1. OmacData
    BY <1>7 DEF OmacInv
  <2>2. \A k0 \in 1..c : oChain[k0] = [j0 \in 1..16 |-> w[(16 * (k0 - 1)) + j0]]
    BY <1>1, <2>1 DEF OmacData, OmacRunning
  <2>3. MarkedFrom(oCbc, w, o, Len(w) - o)
    BY <1>1, <1>6, <2>1 DEF OmacData
  <2> HIDE DEF w
  <2>4. /\ 16 * c <= Len(w) /\ Len(w) <= (16 * c) + 16 /\ (Len(w) = 16 * c => c = 0)
        /\ Len(w) \in Nat /\ c \in Nat
    BY <1>0, <1>2, <1>6
  <2>5. Len(blocks) = c + 1 /\ blocks = [k \in 1..(c + 1) |-> BlockFrom(w, k)]
    BY <2>4, MessageBlocksAre
  <2>6. whole <=> full
    <3>1. ASSUME full PROVE whole
      BY <1>0, <1>6, <3>1
    <3>2. ASSUME ~full PROVE ~whole
      <4>1. Len(w) = (16 * c) + oLeft /\ (c > 0 => oLeft > 0)
        BY <1>2, <1>6, <3>2
      <4>2. Len(w) % 16 = oLeft
        BY <1>0, <1>2, <4>1
      <4>3. ASSUME oLeft = 0 PROVE Len(w) = 0
        BY <1>0, <4>1, <4>3
      <4> QED BY <4>2, <4>3
    <3> QED BY <3>1, <3>2
  <2> HIDE DEF blocks, whole, full
  <2>7. oChain = SubSeq(blocks, 1, Len(blocks) - 1)
    <3>1. oChain = [k0 \in 1..c |-> oChain[k0]]
      BY DEF OmacInv, OmacTypes, Omac!IsSeq, OmacDone
    <3>2. ASSUME NEW k0 \in 1..c PROVE oChain[k0] = blocks[k0]
      <4>1. blocks[k0] = BlockFrom(w, k0)
        BY <2>4, <2>5
      <4>2. \A j0 \in 1..16 : (16 * (k0 - 1)) + j0 <= Len(w)
        BY <2>4
      <4>3. BlockFrom(w, k0) = [j0 \in 1..16 |-> w[(16 * (k0 - 1)) + j0]]
        BY <4>2 DEF BlockFrom
      <4> QED BY <2>2, <4>1, <4>3
    <3>3. SubSeq(blocks, 1, c) = [k0 \in 1..c |-> blocks[k0]]
      <4> DEFINE V == {blocks[k] : k \in 1..(c + 1)}
                 n == c + 1
      <4>1. blocks \in [1..n -> V] /\ n \in Nat
        BY <2>4, <2>5
      <4> HIDE DEF V
      <4>2. blocks \in Seq(V)
        <5> HIDE DEF n
        <5> QED BY <4>1, SequenceOf, Zenon
      <4> QED BY <2>4, <2>5, <4>2, FirstOnes
    <3>4. Len(blocks) - 1 = c
      BY <2>4, <2>5
    <3>5. oChain = [k0 \in 1..c |-> blocks[k0]]
      BY <3>1, <3>2
    <3> QED BY <3>3, <3>4, <3>5
  <2>8. blocks[Len(blocks)] = BlockFrom(w, c + 1) /\ 16 * ((c + 1) - 1) = o
    BY <2>4, <2>5
  <2>9. oCbc = [j0 \in 1..16 |-> oCbc[j0]]
    BY DEF OmacInv, OmacTypes
  <2>10. oCbc = IF whole THEN blocks[Len(blocks)]
                ELSE Omac!Marked(blocks[Len(blocks)], Len(w) % 16)
    <3> DEFINE b == BlockFrom(w, c + 1)
               n == Len(w) - o
    <3>1. \A j0 \in 1..16 : b[j0] = IF j0 <= n THEN w[o + j0] ELSE Omac!Zero
      <4>1. \A j0 \in 1..16 : b[j0] = IF o + j0 <= Len(w) THEN w[o + j0] ELSE Omac!Zero
        BY <2>8 DEF BlockFrom
      <4>2. \A j0 \in 1..16 : o + j0 <= Len(w) <=> j0 <= n
        BY <2>4
      <4> HIDE DEF n, o, b
      <4> QED BY <4>1, <4>2
    <3>2. b = [j0 \in 1..16 |-> b[j0]]
      <4> DEFINE Q(q) == IF (16 * ((c + 1) - 1)) + q <= Len(w) THEN w[(16 * ((c + 1) - 1)) + q]
                         ELSE Omac!Zero
      <4>1. b = [j0 \in 1..16 |-> Q(j0)]
        BY DEF BlockFrom
      <4> HIDE DEF b, Q
      <4> QED BY <4>1
    <3> HIDE DEF b
    <3>3. CASE whole
      <4>1. n = 16
        BY <1>6, <2>4, <2>6, <3>3 DEF full
      <4> HIDE DEF n, o
      <4>2. ASSUME NEW j0 \in 1..16 PROVE oCbc[j0] = b[j0]
        <5>1. j0 <= n
          BY <4>1
        <5>2. oCbc[j0] = w[o + j0] /\ b[j0] = w[o + j0]
          BY <2>3, <3>1, <5>1 DEF MarkedFrom, n
        <5> QED BY <5>2
      <4> QED BY <2>8, <2>9, <3>2, <3>3, <4>2 DEF b
    <3>4. CASE ~whole
      <4>1. n = oLeft /\ Len(w) % 16 = oLeft
        <5>1. Len(w) = (16 * c) + oLeft
          BY <1>2, <1>6, <2>6, <3>4
        <5> QED BY <1>0, <1>2, <5>1
      <4> DEFINE t0 == Omac!Marked(b, oLeft)
      <4>2. t0 = [j0 \in 1..16 |-> IF j0 = oLeft + 1 THEN {<<"0x80">>} ELSE b[j0]]
        BY <3>2 DEF Omac!Marked
      <4>3. \A j0 \in 1..16 : t0[j0] = IF j0 = oLeft + 1 THEN {<<"0x80">>} ELSE b[j0]
        BY <4>2
      <4>4. t0 = [j0 \in 1..16 |-> t0[j0]]
        BY <4>2
      <4> HIDE DEF t0
      <4>5. \A j0 \in 1..16 : oCbc[j0] = t0[j0]
        <5> SUFFICES ASSUME NEW j0 \in 1..16 PROVE oCbc[j0] = t0[j0]
          OBVIOUS
        <5>1. oCbc[j0] = IF j0 <= oLeft THEN w[o + j0]
                         ELSE IF j0 = oLeft + 1 THEN {<<"0x80">>} ELSE Omac!Zero
          BY <2>3, <4>1 DEF MarkedFrom
        <5>2. b[j0] = IF j0 <= oLeft THEN w[o + j0] ELSE Omac!Zero
          BY <3>1, <4>1
        <5> QED BY <1>0, <4>3, <5>1, <5>2
      <4>6. oCbc = t0
        BY <2>9, <4>4, <4>5
      <4> QED BY <2>8, <3>4, <4>1, <4>6 DEF b, t0
    <3> QED BY <3>3, <3>4
  <2>11. Omac!Bits(oPad) = IF whole THEN Omac!Times2(Omac!Bits(oSubkey))
                           ELSE Omac!Times2(Omac!Times2(Omac!Bits(oSubkey)))
    BY <1>3, <2>6, PadDoubled
  <2>12. r0.chain = oChain /\ r0.last = oCbc /\ r0.pad = oPad
    OBVIOUS
  <2> HIDE DEF r0
  <2>13. Omac!OmacIs(w, oSubkey, r0)
    BY <2>7, <2>10, <2>11, <2>12 DEF Omac!OmacIs, Omac!Block, blocks, whole, MessageBlocks
  <2> QED BY <2>13 DEF r0
<1>8. Omac!MacIsOmac'
  BY <1>1, <1>7 DEF Omac!MacIsOmac
<1> QED BY <1>4, <1>5, <1>8 DEF OmacInv

\* Every step keeps it.
LEMMA OmacStays ==
    ASSUME Omac!Inputs, OmacInv, [Omac!Next]_(Omac!vars) PROVE OmacInv'
<1>1. CASE Omac!Step
  BY <1>1, OmacInitStep, OmacByteStep, OmacBlockStep, OmacPadStep, OmacRestStep, OmacFinishStep
     DEF Omac!Step
<1>2. ASSUME NEW v0 \in Vectors, Omac!Call(v0) PROVE OmacInv'
  BY <1>2, OmacCallStep
<1>3. CASE UNCHANGED Omac!vars
  <2>1. UNCHANGED <<oPc, oVec, oCtx, oE, oPos, oLeft, oI, oChain, oCbc, oSubkey, oPad, oMac, oRet>>
    BY <1>3 DEF Omac!vars
  <2>2. UNCHANGED <<OmacLen, OmacRead, OmacDone>>
    BY <2>1 DEF OmacLen, OmacRead, OmacDone
  <2>3. OmacTypes' /\ OmacPads'
    BY <2>1, <2>2 DEF OmacInv, OmacTypes, OmacPads
  <2>4. OmacControl'
    BY <2>1, <2>2 DEF OmacInv, OmacControl
  <2>5. (Omac!EmptyLast(oVec) => OmacData)'
    BY <2>1, <2>2 DEF OmacInv, OmacData
  <2>6. Omac!MacIsOmac'
    BY <2>1 DEF OmacInv, Omac!MacIsOmac
  <2> QED BY <2>3, <2>4, <2>5, <2>6 DEF OmacInv
<1> QED BY <1>1, <1>2, <1>3 DEF Omac!Next

\* The types of the part are those of the invariant.
LEMMA OmacTyped == OmacInv => Omac!TypeOK
  BY DEF OmacInv, OmacTypes, OmacRunning, Omac!TypeOK, Omac!Block

-----------------------------------------------------------------------------
\* Polynomials that are reduced, and those that come up on the way.
Polys == SUBSET (0..127)

\* A sum has the terms that one of the two has.
LEMMA SumHas ==
    \A a, b, x : x \in Ghash!Sum2(a, b) <=> ~(x \in a <=> x \in b)
  BY DEF Ghash!Sum2

\* Adding polynomials: the order does not matter, and each undoes itself.
LEMMA SumGroup ==
    ASSUME NEW a, NEW b, NEW c
    PROVE  /\ Ghash!Sum2(a, b) = Ghash!Sum2(b, a)
           /\ Ghash!Sum2(Ghash!Sum2(a, b), c) = Ghash!Sum2(a, Ghash!Sum2(b, c))
           /\ Ghash!Sum2(a, a) = {} /\ Ghash!Sum2(a, {}) = a /\ Ghash!Sum2({}, a) = a
<1>1. Ghash!Sum2(a, b) = Ghash!Sum2(b, a)
  BY DEF Ghash!Sum2
<1>2. Ghash!Sum2(Ghash!Sum2(a, b), c) = Ghash!Sum2(a, Ghash!Sum2(b, c))
  <2> DEFINE u == Ghash!Sum2(Ghash!Sum2(a, b), c)
             w == Ghash!Sum2(a, Ghash!Sum2(b, c))
  <2>1. \A x : x \in u <=> x \in w
    BY SumHas
  <2> HIDE DEF u, w
  <2>2. u = w
    BY <2>1
  <2> QED BY <2>2 DEF u, w
<1>3. Ghash!Sum2(a, a) = {} /\ Ghash!Sum2(a, {}) = a /\ Ghash!Sum2({}, a) = a
  BY DEF Ghash!Sum2
<1> QED BY <1>1, <1>2, <1>3

\* Multiplied by a power of x the terms move up.
LEMMA ShiftHas ==
    ASSUME NEW a, a \subseteq Nat, NEW n \in Nat
    PROVE  /\ Ghash!Shifted(a, n) \subseteq Nat
           /\ \A x \in Nat : x \in Ghash!Shifted(a, n) <=> x - n \in a
<1>1. \A x \in a : x + n \in Nat
  OBVIOUS
<1>2. Ghash!Shifted(a, n) \subseteq Nat
  BY <1>1 DEF Ghash!Shifted
<1>3. ASSUME NEW x \in Nat PROVE x \in Ghash!Shifted(a, n) <=> x - n \in a
  <2>1. ASSUME x \in Ghash!Shifted(a, n) PROVE x - n \in a
    <3>1. PICK m \in a : x = m + n
      BY <2>1 DEF Ghash!Shifted
    <3>2. m \in Nat /\ x - n = m
      BY <3>1
    <3> QED BY <3>1, <3>2
  <2>2. ASSUME x - n \in a PROVE x \in Ghash!Shifted(a, n)
    <3> DEFINE m == x - n
    <3>1. m \in a /\ x = m + n
      BY <2>2
    <3> HIDE DEF m
    <3> QED BY <3>1 DEF Ghash!Shifted
  <2> QED BY <2>1, <2>2
<1> QED BY <1>2, <1>3

\* What takes the place of x^128.
LEMMA QHas ==
    ASSUME NEW a, a \subseteq Nat
    PROVE  /\ Ghash!TimesQ(a) \subseteq Nat
           /\ \A x \in Nat : x \in Ghash!TimesQ(a) <=>
                ~((~(x \in a <=> x - 1 \in a)) <=> (~(x - 2 \in a <=> x - 7 \in a)))
<1>1. /\ Ghash!Shifted(a, 1) \subseteq Nat /\ Ghash!Shifted(a, 2) \subseteq Nat
      /\ Ghash!Shifted(a, 7) \subseteq Nat
      /\ \A x \in Nat : /\ x \in Ghash!Shifted(a, 1) <=> x - 1 \in a
                        /\ x \in Ghash!Shifted(a, 2) <=> x - 2 \in a
                        /\ x \in Ghash!Shifted(a, 7) <=> x - 7 \in a
  BY ShiftHas
<1> DEFINE s1 == Ghash!Shifted(a, 1)
           s2 == Ghash!Shifted(a, 2)
           s7 == Ghash!Shifted(a, 7)
           u == Ghash!Sum2(a, s1)
           w == Ghash!Sum2(s2, s7)
           t == Ghash!Sum2(u, w)
<1>2. /\ \A x : x \in u <=> ~(x \in a <=> x \in s1)
      /\ \A x : x \in w <=> ~(x \in s2 <=> x \in s7)
      /\ \A x : x \in t <=> ~(x \in u <=> x \in w)
  BY SumHas
<1>3. Ghash!TimesQ(a) = t
  BY DEF Ghash!TimesQ
<1>4. s1 \subseteq Nat /\ s2 \subseteq Nat /\ s7 \subseteq Nat
  BY <1>1
<1>5. \A x \in Nat : (x \in s1 <=> x - 1 \in a) /\ (x \in s2 <=> x - 2 \in a)
                     /\ (x \in s7 <=> x - 7 \in a)
  BY <1>1
<1> HIDE DEF s1, s2, s7, u, w, t
<1>6. t \subseteq Nat
  <2>1. u \subseteq Nat
    BY <1>2, <1>4
  <2>2. w \subseteq Nat
    BY <1>2, <1>4
  <2> QED BY <1>2, <2>1, <2>2
<1>7. ASSUME NEW x \in Nat
      PROVE  x \in t <=> ~((~(x \in a <=> x - 1 \in a)) <=> (~(x - 2 \in a <=> x - 7 \in a)))
  <2>1. x \in u <=> ~(x \in a <=> x - 1 \in a)
    BY <1>2, <1>5
  <2>2. x \in w <=> ~(x - 2 \in a <=> x - 7 \in a)
    BY <1>2, <1>5
  <2>3. x \in t <=> ~(x \in u <=> x \in w)
    BY <1>2
  <2> QED BY <2>1, <2>2, <2>3, Zenon
<1> QED BY <1>3, <1>6, <1>7

\* A term of a polynomial with x^128 replaced once.
FoldedTerm(low, one, two, seven, p0, p128, p127, p126, p121) ==
    ~((low /\ p0) <=>
      ~((~(p128 <=> (one /\ p127))) <=> (~((two /\ p126) <=> (seven /\ p121)))))

\* What is left of X^128 and above is put in as Q: the coefficients afterwards.
LEMMA FoldHas ==
    ASSUME NEW a, a \subseteq Nat
    PROVE  /\ Ghash!Folded(a) \subseteq Nat
           /\ \A x \in Nat : x \in Ghash!Folded(a) <=>
                ~((x < 128 /\ x \in a) <=>
                  ~((~(x + 128 \in a <=> (x >= 1 /\ x + 127 \in a)))
                      <=> (~((x >= 2 /\ x + 126 \in a) <=> (x >= 7 /\ x + 121 \in a)))))
<1> DEFINE hi == {e - 128 : e \in {d \in a : d >= 128}}
           lo == {e \in a : e < 128}
<1>1. hi \subseteq Nat /\ \A x \in Int : x \in hi <=> x >= 0 /\ x + 128 \in a
  <2>1. \A e \in {d \in a : d >= 128} : e - 128 \in Nat /\ (e - 128) + 128 = e
    OBVIOUS
  <2>2. ASSUME NEW x \in Int, x >= 0, x + 128 \in a PROVE x \in hi
    <3> DEFINE e == x + 128
    <3>1. e \in {d \in a : d >= 128} /\ x = e - 128
      BY <2>2
    <3> HIDE DEF e
    <3> QED BY <3>1
  <2>3. ASSUME NEW x \in hi PROVE x \in Nat /\ x + 128 \in a
    <3>1. PICK e \in {d \in a : d >= 128} : x = e - 128
      OBVIOUS
    <3> QED BY <2>1, <3>1
  <2> HIDE DEF hi
  <2> QED BY <2>2, <2>3
<1>2. lo \subseteq Nat /\ \A x \in Nat : x \in lo <=> x < 128 /\ x \in a
  OBVIOUS
<1>3. Ghash!Folded(a) = Ghash!Sum2(lo, Ghash!TimesQ(hi))
  BY DEF Ghash!Folded
<1> HIDE DEF hi, lo
<1>4. /\ Ghash!TimesQ(hi) \subseteq Nat
      /\ \A x \in Nat : x \in Ghash!TimesQ(hi) <=>
           ~((~(x \in hi <=> x - 1 \in hi)) <=> (~(x - 2 \in hi <=> x - 7 \in hi)))
  BY <1>1, QHas
<1>5. ASSUME NEW x \in Nat
      PROVE  /\ x \in hi <=> x + 128 \in a
             /\ x - 1 \in hi <=> x >= 1 /\ x + 127 \in a
             /\ x - 2 \in hi <=> x >= 2 /\ x + 126 \in a
             /\ x - 7 \in hi <=> x >= 7 /\ x + 121 \in a
  <2>1. /\ x - 1 \in Int /\ x - 2 \in Int /\ x - 7 \in Int /\ x \in Int
        /\ (x - 1) + 128 = x + 127 /\ (x - 2) + 128 = x + 126 /\ (x - 7) + 128 = x + 121
    OBVIOUS
  <2> QED BY <1>1, <2>1
<1>6. Ghash!Folded(a) \subseteq Nat
  BY <1>2, <1>3, <1>4, SumHas
<1>7. ASSUME NEW x \in Nat
      PROVE  x \in Ghash!Folded(a) <=>
                ~((x < 128 /\ x \in a) <=>
                  ~((~(x + 128 \in a <=> (x >= 1 /\ x + 127 \in a)))
                      <=> (~((x >= 2 /\ x + 126 \in a) <=> (x >= 7 /\ x + 121 \in a)))))
  BY <1>2, <1>3, <1>4, <1>5, SumHas
<1> QED BY <1>6, <1>7

\* Replacing is linear.
LEMMA FoldLinear ==
    ASSUME NEW a, a \subseteq Nat, NEW b, b \subseteq Nat
    PROVE  Ghash!Folded(Ghash!Sum2(a, b)) = Ghash!Sum2(Ghash!Folded(a), Ghash!Folded(b))
<1> DEFINE c == Ghash!Sum2(a, b)
           u == Ghash!Folded(c)
           w == Ghash!Sum2(Ghash!Folded(a), Ghash!Folded(b))
<1>1. c \subseteq Nat /\ \A x : x \in c <=> ~(x \in a <=> x \in b)
  BY SumHas
<1> HIDE DEF c
<1>2. u \subseteq Nat /\ w \subseteq Nat
  <2>1. u \subseteq Nat
    BY ZenonT(60), <1>1, FoldHas
  <2>2. Ghash!Folded(a) \subseteq Nat /\ Ghash!Folded(b) \subseteq Nat
    BY ZenonT(60), FoldHas
  <2>3. w \subseteq Nat
    BY <2>2, SumHas
  <2> QED BY <2>1, <2>3
<1>3. \A x : x \in w <=> ~(x \in Ghash!Folded(a) <=> x \in Ghash!Folded(b))
  BY SumHas
<1> HIDE DEF w
<1>4. ASSUME NEW x \in Nat PROVE x \in u <=> x \in w
  <2> DEFINE fa == Ghash!Folded(a)
             fb == Ghash!Folded(b)
  <2>1. x \in u <=> FoldedTerm(x < 128, x >= 1, x >= 2, x >= 7, x \in c,
                       x + 128 \in c, x + 127 \in c, x + 126 \in c, x + 121 \in c)
    BY ZenonT(60), <1>1, FoldHas DEF FoldedTerm
  <2>2. x \in fa <=> FoldedTerm(x < 128, x >= 1, x >= 2, x >= 7, x \in a,
                       x + 128 \in a, x + 127 \in a, x + 126 \in a, x + 121 \in a)
    BY ZenonT(60), FoldHas DEF FoldedTerm
  <2>3. x \in fb <=> FoldedTerm(x < 128, x >= 1, x >= 2, x >= 7, x \in b,
                       x + 128 \in b, x + 127 \in b, x + 126 \in b, x + 121 \in b)
    BY ZenonT(60), FoldHas DEF FoldedTerm
  <2>4. x \in w <=> ~(x \in fa <=> x \in fb)
    BY <1>3
  <2>5. \A y : y \in c <=> ~(y \in a <=> y \in b)
    BY <1>1
  <2> HIDE DEF fa, fb, u
  <2> QED BY <2>1, <2>2, <2>3, <2>4, <2>5, SMT DEF FoldedTerm
<1> HIDE DEF u
<1>5. u = w
  BY <1>2, <1>4
<1> QED BY <1>5 DEF u, w, c

\* How far the terms go.
LEMMA FoldBounds ==
    ASSUME NEW a
    PROVE  /\ a \subseteq 0..255 => Ghash!Folded(a) \subseteq 0..134
           /\ a \subseteq 0..135 => Ghash!Folded(a) \in Polys
           /\ a \in Polys => Ghash!Folded(a) = a
<1>1. ASSUME a \subseteq 0..255 PROVE Ghash!Folded(a) \subseteq 0..134
  <2>1. a \subseteq Nat
    BY <1>1
  <2>2. ASSUME NEW x \in Ghash!Folded(a) PROVE x \in 0..134
    <3>1. x \in Nat
      BY <2>1, FoldHas
    <3>2. SUFFICES ASSUME x >= 135 PROVE FALSE
      BY <3>1
    <3>3. ~(x < 128) /\ x + 128 \notin a /\ x + 127 \notin a /\ x + 126 \notin a /\ x + 121 \notin a
      BY <1>1, <3>1, <3>2
    <3> QED BY ZenonT(60), <2>1, <2>2, <3>1, <3>3, FoldHas
  <2> QED BY <2>2
<1>2. ASSUME a \subseteq 0..135 PROVE Ghash!Folded(a) \in Polys
  <2>1. a \subseteq Nat
    BY <1>2
  <2>2. ASSUME NEW x \in Ghash!Folded(a) PROVE x \in 0..127
    <3>1. x \in Nat
      BY <2>1, FoldHas
    <3>2. SUFFICES ASSUME x >= 128 PROVE FALSE
      BY <3>1
    <3>3. ~(x < 128) /\ x + 128 \notin a /\ x + 127 \notin a /\ x + 126 \notin a /\ x + 121 \notin a
      BY <1>2, <3>1, <3>2
    <3> QED BY ZenonT(60), <2>1, <2>2, <3>1, <3>3, FoldHas
  <2> QED BY <2>2 DEF Polys
<1>3. ASSUME a \in Polys PROVE Ghash!Folded(a) = a
  <2>1. a \subseteq Nat /\ a \subseteq 0..127
    BY <1>3 DEF Polys
  <2> DEFINE u == Ghash!Folded(a)
  <2>2. u \subseteq Nat
    BY ZenonT(60), <2>1, FoldHas
  <2>3. ASSUME NEW x \in Nat PROVE x \in u <=> x \in a
    <3>1. /\ x + 128 \notin a /\ (x >= 1 => x + 127 \notin a) /\ (x >= 2 => x + 126 \notin a)
          /\ (x >= 7 => x + 121 \notin a) /\ (x \in a => x < 128)
      BY <2>1
    <3>2. x \in u <=> FoldedTerm(x < 128, x >= 1, x >= 2, x >= 7, x \in a,
                         x + 128 \in a, x + 127 \in a, x + 126 \in a, x + 121 \in a)
      BY ZenonT(60), <2>1, FoldHas DEF FoldedTerm
    <3> HIDE DEF u
    <3> QED BY <3>1, <3>2 DEF FoldedTerm
  <2> HIDE DEF u
  <2>4. u = a
    BY <2>1, <2>2, <2>3
  <2> QED BY <2>4 DEF u
<1> QED BY <1>1, <1>2, <1>3

-----------------------------------------------------------------------------
\* Multiplication by x.
MulX(p) == Ghash!Folded(Ghash!Shifted(p, 1))

\* x^128 and what takes its place are the same.
LEMMA QIsNothing ==
    Ghash!Folded({0, 1, 2, 7, 128}) = {}
<1> DEFINE c == {0, 1, 2, 7, 128}
           u == Ghash!Folded(c)
<1>1. c \subseteq Nat
  OBVIOUS
<1>2. u \subseteq Nat
  BY <1>1, FoldHas
<1>3. ASSUME NEW x \in Nat PROVE ~(x \in u)
  <2>1. x \in u <=> FoldedTerm(x < 128, x >= 1, x >= 2, x >= 7, x \in c,
                      x + 128 \in c, x + 127 \in c, x + 126 \in c, x + 121 \in c)
    BY ZenonT(60), <1>1, FoldHas DEF FoldedTerm
  <2>2. /\ x + 128 \in c <=> x = 0
        /\ x >= 1 /\ x + 127 \in c <=> x = 1
        /\ x >= 2 /\ x + 126 \in c <=> x = 2
        /\ x >= 7 /\ x + 121 \in c <=> x = 7
        /\ x < 128 /\ x \in c <=> x = 0 \/ x = 1 \/ x = 2 \/ x = 7
    OBVIOUS
  <2> HIDE DEF u, c
  <2> QED BY <2>1, <2>2 DEF FoldedTerm
<1> HIDE DEF u
<1>4. u = {}
  BY <1>2, <1>3
<1> QED BY <1>4 DEF u

\* Replaced before or after the terms move up, it is the same when replaced again.
LEMMA FoldShift ==
    ASSUME NEW a, a \subseteq Nat
    PROVE  Ghash!Folded(Ghash!Folded(Ghash!Shifted(a, 1)))
               = Ghash!Folded(Ghash!Shifted(Ghash!Folded(a), 1))
<1> DEFINE sh == Ghash!Shifted(a, 1)
           u == Ghash!Folded(sh)
           f == Ghash!Folded(a)
           w == Ghash!Shifted(f, 1)
           c == IF 127 \in a THEN {0, 1, 2, 7, 128} ELSE {}
           t == Ghash!Sum2(w, c)
<1>1. sh \subseteq Nat /\ \A y \in Nat : (y \in sh <=> y - 1 \in a)
  BY ShiftHas
<1>2. f \subseteq Nat
  BY FoldHas
<1>3. w \subseteq Nat /\ \A y \in Nat : (y \in w <=> y - 1 \in f)
  BY <1>2, ShiftHas
<1>4. u \subseteq Nat
  BY <1>1, FoldHas
<1>5. c \subseteq Nat
  OBVIOUS
<1>6. t \subseteq Nat /\ \A y : (y \in t <=> ~(y \in w <=> y \in c))
  BY <1>3, <1>5, SumHas
<1>7. ASSUME NEW x \in Nat PROVE x \in u <=> x \in t
  <2>1. x \in u <=> FoldedTerm(x < 128, x >= 1, x >= 2, x >= 7, x \in sh,
                      x + 128 \in sh, x + 127 \in sh, x + 126 \in sh, x + 121 \in sh)
    BY <1>1, FoldHas DEF FoldedTerm
  <2>2. /\ x \in sh <=> x - 1 \in a
        /\ x + 128 \in sh <=> x + 127 \in a
        /\ x + 127 \in sh <=> x + 126 \in a
        /\ x + 126 \in sh <=> x + 125 \in a
        /\ x + 121 \in sh <=> x + 120 \in a
    <3>1. /\ x + 128 \in Nat /\ x + 127 \in Nat /\ x + 126 \in Nat /\ x + 121 \in Nat
          /\ (x + 128) - 1 = x + 127 /\ (x + 127) - 1 = x + 126 /\ (x + 126) - 1 = x + 125
          /\ (x + 121) - 1 = x + 120
      OBVIOUS
    <3> QED BY <1>1, <3>1
  <2>3. x \in c <=> 127 \in a /\ x \in {0, 1, 2, 7, 128}
    OBVIOUS
  <2>4. x \in t <=> ~(x \in w <=> x \in c)
    BY <1>6
  <2>5. x \in w <=> x - 1 \in f
    BY <1>3
  <2>6. CASE x = 0
    <3>1. ~(x - 1 \in f) /\ ~(x - 1 \in a)
      BY <1>2, <2>6
    <3>2. x + 127 = 127 /\ x < 128 /\ ~(x >= 1) /\ ~(x >= 2) /\ ~(x >= 7)
      BY <2>6
    <3>3. x \in c <=> 127 \in a
      BY <2>3, <2>6
    <3> HIDE DEF u, t, sh, f, w, c
    <3> QED BY <2>1, <2>2, <2>4, <2>5, <3>1, <3>2, <3>3 DEF FoldedTerm
  <2>7. CASE x >= 1
    <3> DEFINE y == x - 1
    <3>1. y \in Nat
      BY <2>7
    <3>2. y \in f <=> FoldedTerm(y < 128, y >= 1, y >= 2, y >= 7, y \in a,
                        y + 128 \in a, y + 127 \in a, y + 126 \in a, y + 121 \in a)
      BY ZenonT(60), <3>1, FoldHas DEF FoldedTerm
    <3>3. /\ y + 128 = x + 127 /\ y + 127 = x + 126 /\ y + 126 = x + 125 /\ y + 121 = x + 120
          /\ y < 128 <=> x <= 128
          /\ y >= 1 <=> x >= 2
          /\ y >= 2 <=> x >= 3
          /\ y >= 7 <=> x >= 8
      OBVIOUS
    <3>4. x - 1 \in f <=>
            FoldedTerm(x <= 128, x >= 2, x >= 3, x >= 8, x - 1 \in a,
                       x + 127 \in a, x + 126 \in a, x + 125 \in a, x + 120 \in a)
      <4> HIDE DEF f
      <4> QED BY <3>2, <3>3 DEF FoldedTerm
    <3> HIDE DEF u, t, sh, f, w, c
    <3>5. CASE x = 1
      <4>1. x + 126 = 127 /\ x < 128 /\ x <= 128 /\ ~(x >= 2) /\ ~(x >= 3) /\ ~(x >= 7)
            /\ ~(x >= 8) /\ (x \in c <=> 127 \in a)
        BY <2>3, <3>5
      <4> QED BY <2>1, <2>2, <2>4, <2>5, <2>7, <3>4, <4>1 DEF FoldedTerm
    <3>6. CASE x = 2
      <4>1. x + 125 = 127 /\ x < 128 /\ x <= 128 /\ x >= 2 /\ ~(x >= 3) /\ ~(x >= 7)
            /\ ~(x >= 8) /\ (x \in c <=> 127 \in a)
        BY <2>3, <3>6
      <4> QED BY <2>1, <2>2, <2>4, <2>5, <2>7, <3>4, <4>1 DEF FoldedTerm
    <3>7. CASE x = 7
      <4>1. x + 120 = 127 /\ x < 128 /\ x <= 128 /\ x >= 2 /\ x >= 3 /\ x >= 7
            /\ ~(x >= 8) /\ (x \in c <=> 127 \in a)
        BY <2>3, <3>7
      <4> QED BY <2>1, <2>2, <2>4, <2>5, <2>7, <3>4, <4>1 DEF FoldedTerm
    <3>8. CASE x = 128
      <4>1. x - 1 = 127 /\ ~(x < 128) /\ x <= 128 /\ x >= 2 /\ x >= 3 /\ x >= 7
            /\ x >= 8 /\ (x \in c <=> 127 \in a)
        BY <2>3, <3>8
      <4> QED BY <2>1, <2>2, <2>4, <2>5, <2>7, <3>4, <4>1 DEF FoldedTerm
    <3>9. CASE x \notin {1, 2, 7, 128}
      <4>1. (x < 128 <=> x <= 128) /\ x >= 2 /\ x >= 3 /\ (x >= 7 <=> x >= 8) /\ ~(x \in c)
        BY <2>3, <2>7, <3>9
      <4> QED BY <2>1, <2>2, <2>4, <2>5, <2>7, <3>4, <4>1 DEF FoldedTerm
    <3> QED BY <3>5, <3>6, <3>7, <3>8, <3>9
  <2> QED BY <2>6, <2>7
<1> HIDE DEF u, t
<1>8. u = t
  BY <1>4, <1>6, <1>7
<1>9. Ghash!Folded(t) = Ghash!Sum2(Ghash!Folded(w), Ghash!Folded(c))
  BY <1>3, <1>5, FoldLinear DEF t
<1>10. Ghash!Folded(c) = {}
  <2>1. {} \in Polys
    BY DEF Polys
  <2>2. Ghash!Folded({}) = {}
    BY <2>1, FoldBounds
  <2>3. c = {} \/ c = {0, 1, 2, 7, 128}
    OBVIOUS
  <2> HIDE DEF c
  <2> QED BY <2>2, <2>3, QIsNothing
<1>11. Ghash!Folded(u) = Ghash!Folded(w)
  BY <1>8, <1>9, <1>10, SumGroup
<1> QED BY <1>11 DEF u

\* Exponents are numbers.
LEMMA PolysInNat ==
    \A a : a \in Polys \/ a \subseteq 0..254 \/ a \subseteq 0..255 \/ a \subseteq 0..134
              => a \subseteq Nat
  BY DEF Polys

\* Where the exponents are after a shift.
LEMMA ShiftedInside ==
    ASSUME NEW n \in Nat, NEW k \in Nat, NEW a, a \subseteq 0..n
    PROVE  Ghash!Shifted(a, k) \subseteq k..(n + k)
<1>1. \A e \in a : e + k \in k..(n + k)
  OBVIOUS
<1> QED BY <1>1 DEF Ghash!Shifted

\* Reducing goes along with multiplying by x.
LEMMA ReducedShift ==
    ASSUME NEW a, a \subseteq 0..254
    PROVE  /\ Ghash!Reduced(a) \in Polys
           /\ Ghash!Reduced(Ghash!Shifted(a, 1)) = MulX(Ghash!Reduced(a))
<1> DEFINE b == Ghash!Folded(a)
           c == Ghash!Folded(b)
           sh == Ghash!Folded(Ghash!Shifted(b, 1))
<1>0. a \subseteq 0..255 /\ a \subseteq Nat
  OBVIOUS
<1>1. b \subseteq 0..134 /\ b \subseteq Nat /\ b \subseteq 0..135
  <2>1. b \subseteq 0..134
    BY ZenonT(60), <1>0, FoldBounds
  <2> HIDE DEF b
  <2> QED BY <2>1
<1>2. c \in Polys
  BY <1>1, FoldBounds
<1>3. Ghash!Folded(Ghash!Folded(Ghash!Shifted(a, 1))) = sh
  BY <1>0, FoldShift
<1>4. sh \in Polys
  <2>1. Ghash!Shifted(b, 1) \subseteq 1..(134 + 1)
    BY <1>1, ShiftedInside
  <2>2. Ghash!Shifted(b, 1) \subseteq 0..135
    BY <2>1
  <2> QED BY <2>2, FoldBounds
<1>5. Ghash!Folded(sh) = sh
  BY <1>4, FoldBounds
<1>6. Ghash!Folded(sh) = Ghash!Folded(Ghash!Shifted(c, 1))
  BY <1>1, FoldShift
<1> QED BY <1>2, <1>3, <1>5, <1>6 DEF Ghash!Reduced, MulX

\* Reduction is linear,
LEMMA ReducedLinear ==
    ASSUME NEW a, NEW b, a \subseteq 0..254, b \subseteq 0..254
    PROVE  Ghash!Reduced(Ghash!Sum2(a, b)) = Ghash!Sum2(Ghash!Reduced(a), Ghash!Reduced(b))
<1>1. Ghash!Folded(Ghash!Sum2(a, b)) = Ghash!Sum2(Ghash!Folded(a), Ghash!Folded(b))
  BY PolysInNat, FoldLinear
<1>2. Ghash!Folded(a) \subseteq 0..134 /\ Ghash!Folded(b) \subseteq 0..134
  <2>1. a \subseteq 0..255 /\ b \subseteq 0..255
    OBVIOUS
  <2>2. Ghash!Folded(a) \subseteq 0..134
    BY ZenonT(60), <2>1, FoldBounds
  <2>3. Ghash!Folded(b) \subseteq 0..134
    BY ZenonT(60), <2>1, FoldBounds
  <2> QED BY <2>2, <2>3
<1>3. Ghash!Folded(Ghash!Sum2(Ghash!Folded(a), Ghash!Folded(b)))
        = Ghash!Sum2(Ghash!Folded(Ghash!Folded(a)), Ghash!Folded(Ghash!Folded(b)))
  BY <1>2, PolysInNat, FoldLinear
<1> QED BY <1>1, <1>3 DEF Ghash!Reduced

\* sums stay below X^128,
LEMMA SumPolys ==
    ASSUME NEW a \in Polys, NEW b \in Polys
    PROVE  Ghash!Sum2(a, b) \in Polys
  BY DEF Polys, Ghash!Sum2

\* shifting is linear,
LEMMA ShiftLinear ==
    ASSUME NEW a, a \subseteq Nat, NEW b, b \subseteq Nat, NEW n \in Nat
    PROVE  Ghash!Shifted(Ghash!Sum2(a, b), n)
               = Ghash!Sum2(Ghash!Shifted(a, n), Ghash!Shifted(b, n))
<1> DEFINE c == Ghash!Sum2(a, b)
           u == Ghash!Shifted(c, n)
           sa == Ghash!Shifted(a, n)
           sb == Ghash!Shifted(b, n)
           w == Ghash!Sum2(sa, sb)
<1>1. c \subseteq Nat /\ \A x : (x \in c <=> ~(x \in a <=> x \in b))
  BY SumHas
<1>2. u \subseteq Nat /\ \A x \in Nat : (x \in u <=> x - n \in c)
  BY <1>1, ShiftHas
<1>3. sa \subseteq Nat /\ sb \subseteq Nat
      /\ \A x \in Nat : ((x \in sa <=> x - n \in a) /\ (x \in sb <=> x - n \in b))
  BY ShiftHas
<1>4. w \subseteq Nat /\ \A x : (x \in w <=> ~(x \in sa <=> x \in sb))
  BY <1>3, SumHas
<1> HIDE DEF c, u, sa, sb, w
<1>5. \A x \in Nat : (x \in u <=> x \in w)
  BY <1>1, <1>2, <1>3, <1>4
<1>6. u = w
  BY <1>2, <1>4, <1>5
<1> QED BY <1>6 DEF c, u, sa, sb, w

\* and so is multiplication by X.
LEMMA MulXLinear ==
    ASSUME NEW a \in Polys, NEW b \in Polys
    PROVE  /\ MulX(a) \in Polys
           /\ MulX(Ghash!Sum2(a, b)) = Ghash!Sum2(MulX(a), MulX(b))
<1>1. a \subseteq Nat /\ b \subseteq Nat
  BY PolysInNat
<1>2. Ghash!Shifted(a, 1) \subseteq Nat /\ Ghash!Shifted(b, 1) \subseteq Nat
  BY <1>1, ShiftHas
<1>3. MulX(a) \in Polys
  <2>1. a \subseteq 0..127
    BY DEF Polys
  <2>2. Ghash!Shifted(a, 1) \subseteq 1..(127 + 1)
    BY <2>1, ShiftedInside
  <2>3. Ghash!Shifted(a, 1) \subseteq 0..135
    BY <2>2
  <2> QED BY <2>3, FoldBounds DEF MulX
<1>4. Ghash!Shifted(Ghash!Sum2(a, b), 1)
        = Ghash!Sum2(Ghash!Shifted(a, 1), Ghash!Shifted(b, 1))
  <2>1. 1 \in Nat
    OBVIOUS
  <2> QED BY <1>1, <2>1, ShiftLinear, Zenon
<1>5. Ghash!Folded(Ghash!Sum2(Ghash!Shifted(a, 1), Ghash!Shifted(b, 1)))
        = Ghash!Sum2(Ghash!Folded(Ghash!Shifted(a, 1)), Ghash!Folded(Ghash!Shifted(b, 1)))
  BY <1>2, FoldLinear
<1> QED BY <1>3, <1>4, <1>5 DEF MulX

-----------------------------------------------------------------------------
\* GHASH counts as everybody does.
LEMMA CountsAlike == \A u : Ghash!Cardinality(u) = Cardinality(u)
  BY DEF Ghash!Cardinality, Cardinality

IsOdd(u) == Cardinality(u) % 2 = 1

\* The sum of two sets has an odd number of elements if one of them has and the other has not.
LEMMA OddSum ==
    ASSUME NEW a, NEW b, IsFiniteSet(a), IsFiniteSet(b)
    PROVE  IsOdd(Ghash!Sum2(a, b)) <=> ~(IsOdd(a) <=> IsOdd(b))
<1> DEFINE p == a \ b
           q == b \ a
           c == a \cap b
<1>1. IsFiniteSet(p) /\ IsFiniteSet(q) /\ IsFiniteSet(c)
  <2>1. p \in SUBSET a /\ q \in SUBSET b /\ c \in SUBSET a
    OBVIOUS
  <2> QED BY <2>1, FS_Subset
<1>2. /\ a = p \cup c /\ p \cap c = {}
      /\ b = q \cup c /\ q \cap c = {}
      /\ Ghash!Sum2(a, b) = p \cup q /\ p \cap q = {}
  BY DEF Ghash!Sum2
<1> HIDE DEF p, q, c
<1>3. Cardinality(p) \in Nat /\ Cardinality(q) \in Nat /\ Cardinality(c) \in Nat
  BY <1>1, FS_CardinalityType
<1>4. Cardinality({}) = 0
  BY FS_EmptySet
<1>5. Cardinality(a) = Cardinality(p) + Cardinality(c)
  <2>1. Cardinality(p \cup c) = Cardinality(p) + Cardinality(c) - Cardinality(p \cap c)
    BY <1>1, FS_Union
  <2>2. Cardinality(p \cap c) = 0
    BY <1>2, <1>4, Zenon
  <2>3. Cardinality(a) = Cardinality(p \cup c)
    BY <1>2, Zenon
  <2> QED BY <1>3, <2>1, <2>2, <2>3
<1>6. Cardinality(b) = Cardinality(q) + Cardinality(c)
  <2>1. Cardinality(q \cup c) = Cardinality(q) + Cardinality(c) - Cardinality(q \cap c)
    BY <1>1, FS_Union
  <2>2. Cardinality(q \cap c) = 0
    BY <1>2, <1>4, Zenon
  <2>3. Cardinality(b) = Cardinality(q \cup c)
    BY <1>2, Zenon
  <2> QED BY <1>3, <2>1, <2>2, <2>3
<1>7. Cardinality(Ghash!Sum2(a, b)) = Cardinality(p) + Cardinality(q)
  <2>1. Cardinality(p \cup q) = Cardinality(p) + Cardinality(q) - Cardinality(p \cap q)
    BY <1>1, FS_Union
  <2>2. Cardinality(p \cap q) = 0
    BY <1>2, <1>4, Zenon
  <2>3. Cardinality(Ghash!Sum2(a, b)) = Cardinality(p \cup q)
    BY <1>2, Zenon
  <2> QED BY <1>3, <2>1, <2>2, <2>3
<1>8. \A x, y, w \in Nat : ((x + y) % 2 = 1) <=> ~(((x + w) % 2 = 1) <=> ((y + w) % 2 = 1))
  OBVIOUS
<1> QED BY <1>3, <1>5, <1>6, <1>7, <1>8 DEF IsOdd

\* The terms that are multiplied with one another to x^e.
Pairs(a, b, e) == {n \in a : e - n \in b}

\* A coefficient of the product is the parity of the pairs that make it.
LEMMA ProductIs ==
    ASSUME NEW a, NEW b
    PROVE  Ghash!Product(a, b) = {e \in 0..254 : IsOdd(Pairs(a, b, e))}
  BY CountsAlike DEF Ghash!Product, IsOdd, Pairs

\* There are finitely many pairs.
LEMMA PairsFinite ==
    ASSUME NEW a \in Polys, NEW b, NEW e PROVE IsFiniteSet(Pairs(a, b, e))
<1>1. IsFiniteSet(0..127)
  <2>1. 0 \in Int /\ 127 \in Int
    OBVIOUS
  <2> QED BY <2>1, FS_Interval, Zenon
<1>2. Pairs(a, b, e) \in SUBSET (0..127)
  BY DEF Pairs, Polys
<1> QED BY <1>1, <1>2, FS_Subset

\* Multiplication by b is linear,
LEMMA ProductLinear ==
    ASSUME NEW a \in Polys, NEW c \in Polys, NEW b
    PROVE  Ghash!Product(Ghash!Sum2(a, c), b)
               = Ghash!Sum2(Ghash!Product(a, b), Ghash!Product(c, b))
<1> DEFINE s0 == Ghash!Sum2(a, c)
           D == 0..254
<1>1. ASSUME NEW e \in D
      PROVE  IsOdd(Pairs(s0, b, e)) <=> ~(IsOdd(Pairs(a, b, e)) <=> IsOdd(Pairs(c, b, e)))
  <2>1. Pairs(s0, b, e) = Ghash!Sum2(Pairs(a, b, e), Pairs(c, b, e))
    BY DEF Pairs, Ghash!Sum2
  <2>2. IsFiniteSet(Pairs(a, b, e)) /\ IsFiniteSet(Pairs(c, b, e))
    BY PairsFinite
  <2> HIDE DEF s0
  <2> QED BY <2>1, <2>2, OddSum
<1> HIDE DEF s0, D
<1> DEFINE u == Ghash!Product(s0, b)
           ua == Ghash!Product(a, b)
           uc == Ghash!Product(c, b)
<1>2. /\ \A e : (e \in u <=> e \in D /\ IsOdd(Pairs(s0, b, e)))
      /\ \A e : (e \in ua <=> e \in D /\ IsOdd(Pairs(a, b, e)))
      /\ \A e : (e \in uc <=> e \in D /\ IsOdd(Pairs(c, b, e)))
  BY ProductIs DEF D
<1> HIDE DEF u, ua, uc
<1>3. \A e : (e \in u <=> ~(e \in ua <=> e \in uc))
  BY <1>1, <1>2
<1>4. u = Ghash!Sum2(ua, uc)
  BY <1>3, SumHas
<1> QED BY <1>4 DEF u, ua, uc, s0

\* with a power of x it moves the terms up, and nothing is the product with nothing.
LEMMA ProductPower ==
    ASSUME NEW k \in 0..127, NEW b \in Polys
    PROVE  Ghash!Product({k}, b) = Ghash!Shifted(b, k)
<1>0. k \in Nat /\ 127 \in Nat
  OBVIOUS
<1>1. b \subseteq Nat /\ b \subseteq 0..127
  BY PolysInNat DEF Polys
<1>2. Ghash!Shifted(b, k) \subseteq Nat
      /\ \A x \in Nat : (x \in Ghash!Shifted(b, k) <=> x - k \in b)
  BY <1>0, <1>1, ShiftHas
<1>3. Ghash!Shifted(b, k) \subseteq 0..254
  <2>1. Ghash!Shifted(b, k) \subseteq k..(127 + k)
    BY <1>0, <1>1, ShiftedInside
  <2>2. \A e : e \in k..(127 + k) => e \in 0..254
    OBVIOUS
  <2> QED BY <2>1, <2>2, Zenon
<1>4. ASSUME NEW e \in 0..254 PROVE IsOdd(Pairs({k}, b, e)) <=> e - k \in b
  <2>1. CASE e - k \in b
    <3>1. Pairs({k}, b, e) = {k}
      BY <2>1 DEF Pairs
    <3>2. Cardinality({k}) = 1
      BY FS_Singleton
    <3>3. IsOdd({k})
      BY <3>2 DEF IsOdd
    <3> QED BY <2>1, <3>1, <3>3, Zenon
  <2>2. CASE ~(e - k \in b)
    <3>1. Pairs({k}, b, e) = {}
      BY <2>2 DEF Pairs
    <3>2. Cardinality({}) = 0
      BY FS_EmptySet
    <3>3. ~IsOdd({})
      BY <3>2 DEF IsOdd
    <3> QED BY <2>2, <3>1, <3>3, Zenon
  <2> QED BY <2>1, <2>2
<1> DEFINE u == Ghash!Product({k}, b)
           w == Ghash!Shifted(b, k)
<1>5. \A e : (e \in u <=> e \in 0..254 /\ IsOdd(Pairs({k}, b, e)))
  BY ProductIs
<1> HIDE DEF u, w
<1>6. \A e \in 0..254 : (e \in u <=> e \in w)
  <2>1. \A x \in Nat : (x \in w <=> x - k \in b)
    BY <1>2 DEF w
  <2>2. \A e \in 0..254 : e \in Nat
    OBVIOUS
  <2> QED BY <1>4, <1>5, <2>1, <2>2, Zenon
<1>7. u \subseteq 0..254
  BY <1>5
<1>8. u = w
  BY ZenonT(60), <1>3, <1>6, <1>7 DEF w
<1> QED BY <1>8 DEF u, w

\* Nothing times anything is nothing,
LEMMA ProductOfNothing ==
    ASSUME NEW b PROVE Ghash!Product({}, b) = {} /\ Ghash!Times({}, b) = {}
<1>1. \A e : Pairs({}, b, e) = {}
  BY DEF Pairs
<1>2. ~IsOdd({})
  <2>1. Cardinality({}) = 0
    BY FS_EmptySet
  <2> QED BY <2>1 DEF IsOdd
<1>3. Ghash!Product({}, b) = {}
  BY <1>1, <1>2, ProductIs
<1>4. {} \in Polys
  BY DEF Polys
<1>5. Ghash!Folded({}) = {}
  BY <1>4, FoldBounds
<1> QED BY <1>3, <1>5 DEF Ghash!Times, Ghash!Reduced

\* and a product has no power beyond X^254.
LEMMA ProductInside ==
    ASSUME NEW a, NEW b PROVE Ghash!Product(a, b) \subseteq 0..254
  BY DEF Ghash!Product

\* So it is reduced.
LEMMA TimesLinear ==
    ASSUME NEW a \in Polys, NEW c \in Polys, NEW b
    PROVE  /\ Ghash!Times(a, b) \in Polys
           /\ Ghash!Times(Ghash!Sum2(a, c), b)
                = Ghash!Sum2(Ghash!Times(a, b), Ghash!Times(c, b))
<1>1. Ghash!Product(a, b) \subseteq 0..254
  BY ProductInside
<1>2. Ghash!Product(c, b) \subseteq 0..254
  BY ProductInside
<1>3. Ghash!Times(a, b) \in Polys
  BY <1>1, ReducedShift DEF Ghash!Times
<1>4. Ghash!Reduced(Ghash!Sum2(Ghash!Product(a, b), Ghash!Product(c, b)))
        = Ghash!Sum2(Ghash!Reduced(Ghash!Product(a, b)), Ghash!Reduced(Ghash!Product(c, b)))
  BY <1>1, <1>2, ReducedLinear
<1> QED BY <1>3, <1>4, ProductLinear DEF Ghash!Times

-----------------------------------------------------------------------------
\* Linear maps of polynomials.
IsLinear(f) == \A a, b \in Polys : f[Ghash!Sum2(a, b)] = Ghash!Sum2(f[a], f[b])

\* Two of them are the same if they agree on the powers of x.
LEMMA LinearSame ==
    ASSUME NEW f, IsLinear(f), NEW g, IsLinear(g), \A k \in 0..127 : f[{k}] = g[{k}],
           NEW p \in Polys
    PROVE  f[p] = g[p]
<1> DEFINE cut(n) == {e \in p : e < n}
           U == {n \in 0..128 : f[cut(n)] = g[cut(n)]}
<1>0. \A n \in 0..128 : cut(n) \in Polys
  BY DEF Polys
<1>1. 0 \in U
  <2>0. \A e \in p : e \in 0..127 /\ ~(e < 0)
    BY DEF Polys
  <2>1. cut(0) = {} /\ {} \in Polys
    <3>1. cut(0) = {}
      BY <2>0
    <3>2. {} \in Polys
      BY DEF Polys
    <3> QED BY <3>1, <3>2
  <2>2. Ghash!Sum2({}, {}) = {}
    BY SumGroup
  <2>3. f[{}] = Ghash!Sum2(f[{}], f[{}])
    BY <2>1, <2>2 DEF IsLinear
  <2>4. g[{}] = Ghash!Sum2(g[{}], g[{}])
    BY <2>1, <2>2 DEF IsLinear
  <2>5. f[{}] = {} /\ g[{}] = {}
    BY <2>3, <2>4, SumGroup
  <2>6. f[cut(0)] = g[cut(0)]
    BY <2>1, <2>5, Zenon
  <2>7. 0 \in 0..128
    OBVIOUS
  <2> HIDE DEF cut
  <2> QED BY <2>6, <2>7
<1>2. ASSUME NEW n \in 1..128, n - 1 \in U PROVE n \in U
  <2>1. n - 1 \in 0..127 /\ n \in 0..128 /\ n - 1 \in 0..128
    OBVIOUS
  <2>2. {n - 1} \in Polys
    BY <2>1 DEF Polys
  <2>3. CASE n - 1 \in p
    <3>1. cut(n) = Ghash!Sum2(cut(n - 1), {n - 1})
      <4>1. \A e \in p : e \in 0..127
        BY DEF Polys
      <4>2. \A e \in p : (e < n <=> e < n - 1 \/ e = n - 1)
        BY <4>1
      <4>3. ~(n - 1 \in cut(n - 1))
        BY <2>1
      <4>4. \A e : (e \in cut(n) <=> e \in cut(n - 1) \/ e \in {n - 1})
        BY <2>3, <4>2
      <4> QED BY <4>3, <4>4 DEF Ghash!Sum2
    <3> DEFINE c == cut(n - 1)
    <3>2. c \in Polys /\ f[c] = g[c]
      BY <1>0, <1>2, <2>1
    <3> HIDE DEF cut, c
    <3>3. f[Ghash!Sum2(c, {n - 1})] = Ghash!Sum2(f[c], f[{n - 1}])
      BY <2>2, <3>2 DEF IsLinear
    <3>4. g[Ghash!Sum2(c, {n - 1})] = Ghash!Sum2(g[c], g[{n - 1}])
      BY <2>2, <3>2 DEF IsLinear
    <3>5. f[{n - 1}] = g[{n - 1}]
      BY <2>1
    <3>6. f[cut(n)] = g[cut(n)]
      BY <3>1, <3>2, <3>3, <3>4, <3>5 DEF c
    <3> QED BY <2>1, <3>6
  <2>4. CASE ~(n - 1 \in p)
    <3>1. \A e \in p : e \in 0..127
      BY DEF Polys
    <3>2. cut(n) = cut(n - 1)
      BY <2>4, <3>1
    <3>3. f[cut(n - 1)] = g[cut(n - 1)]
      BY <1>2
    <3> HIDE DEF cut
    <3> QED BY <2>1, <3>2, <3>3
  <2> QED BY <2>3, <2>4
<1> DEFINE n0 == 128
<1>3. 128 \in U
  <2>1. n0 \in Nat /\ n0 \in 0..n0
    OBVIOUS
  <2>2. 0 \in U /\ \A k \in 1..n0 : (k - 1 \in U => k \in U)
    BY <1>1, <1>2
  <2> HIDE DEF U, n0
  <2>3. \A k \in 0..n0 : k \in U
    BY <2>1, <2>2, Climbs
  <2>4. n0 \in U
    BY <2>1, <2>3
  <2> QED BY <2>4 DEF n0
<1>4. cut(128) = p
  <2>1. \A e \in p : e \in 0..127 /\ e < 128
    BY DEF Polys
  <2> QED BY <2>1
<1>5. f[cut(128)] = g[cut(128)]
  BY SMTT(30), <1>3
<1> HIDE DEF cut
<1> QED BY <1>4, <1>5

\* The product with a power of x.
LEMMA TimesPower ==
    ASSUME NEW b \in Polys
    PROVE  /\ Ghash!Times({0}, b) = b
           /\ \A k \in 0..126 : Ghash!Times({k + 1}, b) = MulX(Ghash!Times({k}, b))
           /\ \A k \in 0..127 : Ghash!Times({k}, b) = Ghash!Reduced(Ghash!Shifted(b, k))
<1>1. b \subseteq Nat /\ b \subseteq 0..127
  BY PolysInNat DEF Polys
<1>2. \A k \in 0..127 : Ghash!Times({k}, b) = Ghash!Reduced(Ghash!Shifted(b, k))
  BY ProductPower DEF Ghash!Times
<1>3. Ghash!Shifted(b, 0) = b
  <2> DEFINE w == Ghash!Shifted(b, 0)
  <2>1. w \subseteq Nat /\ \A x \in Nat : (x \in w <=> x - 0 \in b)
    <3>1. 0 \in Nat
      OBVIOUS
    <3> QED BY <1>1, <3>1, ShiftHas
  <2> HIDE DEF w
  <2>2. \A x \in Nat : x - 0 = x
    OBVIOUS
  <2>3. w = b
    BY <1>1, <2>1, <2>2
  <2> QED BY <2>3 DEF w
<1>4. Ghash!Times({0}, b) = b
  <2>1. Ghash!Folded(b) = b
    BY FoldBounds
  <2> QED BY <1>2, <1>3, <2>1 DEF Ghash!Reduced
<1>5. ASSUME NEW k \in 0..127
      PROVE  /\ Ghash!Shifted(b, k) \subseteq 0..254
             /\ Ghash!Shifted(b, k + 1) = Ghash!Shifted(Ghash!Shifted(b, k), 1)
  <2> DEFINE m == k + 1
             s0 == Ghash!Shifted(b, k)
             w == Ghash!Shifted(b, m)
             t == Ghash!Shifted(s0, 1)
  <2>0. k \in Nat /\ 127 \in Nat /\ m \in Nat /\ 1 \in Nat
    OBVIOUS
  <2>1. s0 \subseteq Nat /\ \A x \in Nat : (x \in s0 <=> x - k \in b)
    BY <1>1, <2>0, ShiftHas
  <2>2. w \subseteq Nat /\ \A x \in Nat : (x \in w <=> x - m \in b)
    BY <1>1, <2>0, ShiftHas
  <2>3. s0 \subseteq k..(127 + k)
    BY <1>1, <2>0, ShiftedInside
  <2>4. \A e : e \in k..(127 + k) => e \in 0..254
    OBVIOUS
  <2>5. t \subseteq Nat /\ \A x \in Nat : (x \in t <=> x - 1 \in s0)
    BY <2>0, <2>1, ShiftHas
  <2> HIDE DEF s0, w, t
  <2>6. ASSUME NEW x \in Nat PROVE x \in w <=> x \in t
    <3>1. CASE x = 0
      <4>1. ~(x - 1 \in s0)
        BY <2>1, <3>1
      <4>2. ~(x - m \in b)
        BY <1>1, <3>1
      <4> QED BY <2>2, <2>5, <4>1, <4>2
    <3>2. CASE x >= 1
      <4>1. x - 1 \in Nat /\ (x - 1) - k = x - m
        BY <3>2
      <4> QED BY <2>1, <2>2, <2>5, <4>1
    <3> QED BY <3>1, <3>2
  <2>7. w = t
    BY <2>2, <2>5, <2>6
  <2>8. s0 \subseteq 0..254
    BY <2>3, <2>4
  <2> QED BY <2>7, <2>8 DEF w, t, s0
<1>6. ASSUME NEW k \in 0..126
      PROVE  Ghash!Times({k + 1}, b) = MulX(Ghash!Times({k}, b))
  <2>1. k \in 0..127 /\ k + 1 \in 0..127
    OBVIOUS
  <2>2. Ghash!Times({k + 1}, b) = Ghash!Reduced(Ghash!Shifted(b, k + 1))
    BY <1>2, <2>1
  <2>3. Ghash!Times({k}, b) = Ghash!Reduced(Ghash!Shifted(b, k))
    BY <1>2, <2>1
  <2>4. Ghash!Reduced(Ghash!Shifted(Ghash!Shifted(b, k), 1))
          = MulX(Ghash!Reduced(Ghash!Shifted(b, k)))
    BY <1>5, <2>1, ReducedShift
  <2> QED BY <1>5, <2>1, <2>2, <2>3, <2>4
<1> QED BY <1>2, <1>4, <1>6

-----------------------------------------------------------------------------
\* x^128 by any polynomial: what comes out of the last of the powers multiplied by x.
QPoly == {0, 1, 2, 7}

\* Q by its powers, which are polynomials each.
LEMMA QPolyIs ==
    /\ QPoly = Ghash!Sum2(Ghash!Sum2({0}, {1}), Ghash!Sum2({2}, {7}))
    /\ \A k \in 0..127 : {k} \in Polys
<1>1. Ghash!Sum2({0}, {1}) = {0, 1} /\ Ghash!Sum2({2}, {7}) = {2, 7}
  BY DEF Ghash!Sum2
<1>2. Ghash!Sum2({0, 1}, {2, 7}) = QPoly
  BY DEF Ghash!Sum2, QPoly
<1>3. ASSUME NEW k \in 0..127 PROVE {k} \in Polys
  BY DEF Polys
<1> QED BY <1>1, <1>2, <1>3

\* A product with Q.
LEMMA TimesQPoly ==
    ASSUME NEW b \in Polys
    PROVE  Ghash!Times(QPoly, b)
             = Ghash!Sum2(Ghash!Sum2(Ghash!Times({0}, b), Ghash!Times({1}, b)),
                          Ghash!Sum2(Ghash!Times({2}, b), Ghash!Times({7}, b)))
<1>1. {0} \in Polys /\ {1} \in Polys /\ {2} \in Polys /\ {7} \in Polys
  BY QPolyIs
<1>2. Ghash!Sum2({0}, {1}) \in Polys /\ Ghash!Sum2({2}, {7}) \in Polys
  BY <1>1, SumPolys
<1>3. Ghash!Times(Ghash!Sum2({0}, {1}), b)
        = Ghash!Sum2(Ghash!Times({0}, b), Ghash!Times({1}, b))
  BY <1>1, TimesLinear
<1>4. Ghash!Times(Ghash!Sum2({2}, {7}), b)
        = Ghash!Sum2(Ghash!Times({2}, b), Ghash!Times({7}, b))
  BY <1>1, TimesLinear
<1>5. Ghash!Times(Ghash!Sum2(Ghash!Sum2({0}, {1}), Ghash!Sum2({2}, {7})), b)
        = Ghash!Sum2(Ghash!Times(Ghash!Sum2({0}, {1}), b), Ghash!Times(Ghash!Sum2({2}, {7}), b))
  BY <1>2, TimesLinear
<1> QED BY <1>3, <1>4, <1>5, QPolyIs

\* X^127 times X is Q, in a product as well.
LEMMA LastPower ==
    ASSUME NEW b \in Polys
    PROVE  MulX(Ghash!Times({127}, b)) = Ghash!Times(QPoly, b)
<1> DEFINE sh(k) == Ghash!Shifted(b, k)
<1>1. b \subseteq Nat /\ b \subseteq 0..127
  BY PolysInNat DEF Polys
<1>2. \A k \in Nat : sh(k) \subseteq Nat /\ \A x \in Nat : (x \in sh(k) <=> x - k \in b)
  BY <1>1, ShiftHas
<1>3. sh(127) \subseteq 0..254
  <2> DEFINE k == 127
  <2>1. k \in Nat
    OBVIOUS
  <2>2. sh(k) \subseteq k..(k + k)
    <3> HIDE DEF k
    <3>1. b \subseteq 0..k
      BY <1>1 DEF k
    <3> QED BY <2>1, <3>1, ShiftedInside
  <2>3. \A e : e \in k..(k + k) => e \in 0..254
    OBVIOUS
  <2> HIDE DEF sh
  <2> QED BY <2>2, <2>3 DEF k
<1>4. Ghash!Shifted(sh(127), 1) = sh(128)
  <2> DEFINE t == Ghash!Shifted(sh(127), 1)
             u == sh(128)
             s0 == sh(127)
  <2>1. 127 \in Nat /\ 128 \in Nat /\ 1 \in Nat
    OBVIOUS
  <2>2. s0 \subseteq Nat /\ \A x \in Nat : (x \in s0 <=> x - 127 \in b)
    BY <1>2, <2>1
  <2>3. u \subseteq Nat /\ \A x \in Nat : (x \in u <=> x - 128 \in b)
    BY <1>2, <2>1
  <2>4. t \subseteq Nat /\ \A x \in Nat : (x \in t <=> x - 1 \in s0)
    BY <2>1, <2>2, ShiftHas
  <2> HIDE DEF t, u, s0
  <2>5. ASSUME NEW x \in Nat PROVE x \in t <=> x \in u
    <3>1. CASE x = 0
      <4>1. ~(x - 1 \in s0) /\ ~(x - 128 \in b)
        BY <1>1, <2>2, <3>1
      <4> QED BY <2>3, <2>4, <4>1
    <3>2. CASE x >= 1
      <4>1. x - 1 \in Nat /\ (x - 1) - 127 = x - 128
        BY <3>2
      <4> QED BY <2>2, <2>3, <2>4, <4>1
    <3> QED BY <3>1, <3>2
  <2>6. t = u
    BY <2>3, <2>4, <2>5
  <2> QED BY <2>6 DEF t, u
<1>5. Ghash!Folded(sh(128)) = Ghash!TimesQ(b)
  <2> DEFINE s0 == sh(128)
             u == Ghash!Folded(s0)
             w == Ghash!TimesQ(b)
  <2>0. 128 \in Nat
    OBVIOUS
  <2>1. s0 \subseteq Nat /\ \A x \in Nat : (x \in s0 <=> x - 128 \in b)
    BY <1>2, <2>0
  <2>2. u \subseteq Nat
    BY <2>1, FoldHas
  <2>3. w \subseteq Nat
    BY <1>1, QHas
  <2>4. ASSUME NEW x \in Nat PROVE x \in u <=> x \in w
    <3>1. x \in u <=> FoldedTerm(x < 128, x >= 1, x >= 2, x >= 7, x \in s0,
                        x + 128 \in s0, x + 127 \in s0, x + 126 \in s0, x + 121 \in s0)
      BY <2>1, FoldHas DEF FoldedTerm
    <3>2. x \in w <=> ~((~(x \in b <=> x - 1 \in b)) <=> (~(x - 2 \in b <=> x - 7 \in b)))
      BY <1>1, QHas
    <3>3. /\ x + 128 \in Nat /\ x + 127 \in Nat /\ x + 126 \in Nat /\ x + 121 \in Nat
          /\ (x + 128) - 128 = x /\ (x + 127) - 128 = x - 1 /\ (x + 126) - 128 = x - 2
          /\ (x + 121) - 128 = x - 7
      OBVIOUS
    <3>4. /\ x \in s0 <=> x - 128 \in b
          /\ x + 128 \in s0 <=> x \in b
          /\ x + 127 \in s0 <=> x - 1 \in b
          /\ x + 126 \in s0 <=> x - 2 \in b
          /\ x + 121 \in s0 <=> x - 7 \in b
      <4> HIDE DEF s0
      <4> QED BY <2>1, <3>3
    <3>5. /\ x < 128 => ~(x - 128 \in b)
          /\ x - 1 \in b => x >= 1
          /\ x - 2 \in b => x >= 2
          /\ x - 7 \in b => x >= 7
      BY <1>1
    <3> HIDE DEF s0, u, w
    <3> QED BY <3>1, <3>2, <3>4, <3>5 DEF FoldedTerm
  <2> HIDE DEF u, w
  <2>5. u = w
    BY <2>2, <2>3, <2>4
  <2> QED BY <2>5 DEF u, w
<1>6. Ghash!Folded(b) = b
  BY FoldBounds
<1>7. ASSUME NEW k \in {1, 2, 7} PROVE Ghash!Folded(sh(k)) = Ghash!Times({k}, b)
  <2>1. k \in Nat /\ 127 \in Nat /\ k \in 0..127
    OBVIOUS
  <2>2. sh(k) \subseteq k..(127 + k)
    BY <1>1, <2>1, ShiftedInside
  <2>3. \A e : e \in k..(127 + k) => e \in 0..135
    OBVIOUS
  <2> HIDE DEF sh
  <2>4. sh(k) \subseteq 0..135
    BY <2>2, <2>3
  <2>5. Ghash!Folded(sh(k)) \in Polys
    BY <2>4, FoldBounds
  <2>6. Ghash!Folded(Ghash!Folded(sh(k))) = Ghash!Folded(sh(k))
    BY <2>5, FoldBounds
  <2>7. Ghash!Times({k}, b) = Ghash!Reduced(sh(k))
    BY <2>1, TimesPower DEF sh
  <2> QED BY <2>6, <2>7 DEF Ghash!Reduced
<1>8. Ghash!Folded(Ghash!TimesQ(b))
        = Ghash!Sum2(Ghash!Sum2(Ghash!Folded(b), Ghash!Folded(sh(1))),
                     Ghash!Sum2(Ghash!Folded(sh(2)), Ghash!Folded(sh(7))))
  <2>1. sh(1) \subseteq Nat /\ sh(2) \subseteq Nat /\ sh(7) \subseteq Nat
    <3>1. 1 \in Nat /\ 2 \in Nat /\ 7 \in Nat
      OBVIOUS
    <3> HIDE DEF sh
    <3> QED BY <1>2, <3>1
  <2>2. Ghash!TimesQ(b) = Ghash!Sum2(Ghash!Sum2(b, sh(1)), Ghash!Sum2(sh(2), sh(7)))
    BY DEF Ghash!TimesQ
  <2> HIDE DEF sh
  <2>3. Ghash!Sum2(b, sh(1)) \subseteq Nat /\ Ghash!Sum2(sh(2), sh(7)) \subseteq Nat
    BY <1>1, <2>1 DEF Ghash!Sum2
  <2>4. Ghash!Folded(Ghash!Sum2(b, sh(1))) = Ghash!Sum2(Ghash!Folded(b), Ghash!Folded(sh(1)))
    BY <1>1, <2>1, FoldLinear
  <2>5. Ghash!Folded(Ghash!Sum2(sh(2), sh(7)))
          = Ghash!Sum2(Ghash!Folded(sh(2)), Ghash!Folded(sh(7)))
    BY <2>1, FoldLinear
  <2>6. Ghash!Folded(Ghash!Sum2(Ghash!Sum2(b, sh(1)), Ghash!Sum2(sh(2), sh(7))))
          = Ghash!Sum2(Ghash!Folded(Ghash!Sum2(b, sh(1))), Ghash!Folded(Ghash!Sum2(sh(2), sh(7))))
    BY <2>3, FoldLinear
  <2> QED BY <2>2, <2>4, <2>5, <2>6
<1>9. Ghash!Times({0}, b) = b
  BY TimesPower
<1>10. Ghash!Folded(Ghash!TimesQ(b)) = Ghash!Times(QPoly, b)
  <2>1. Ghash!Folded(sh(1)) = Ghash!Times({1}, b) /\ Ghash!Folded(sh(2)) = Ghash!Times({2}, b)
        /\ Ghash!Folded(sh(7)) = Ghash!Times({7}, b)
    BY <1>7
  <2> HIDE DEF sh
  <2> QED BY <1>6, <1>8, <1>9, <2>1, TimesQPoly
<1>11. MulX(Ghash!Reduced(sh(127))) = Ghash!Reduced(sh(128))
  <2> HIDE DEF sh
  <2> QED BY <1>3, <1>4, ReducedShift
<1>12. Ghash!Times({127}, b) = Ghash!Reduced(sh(127))
  <2>1. 127 \in 0..127
    OBVIOUS
  <2> QED BY <2>1, TimesPower
<1> HIDE DEF sh
<1> QED BY <1>5, <1>10, <1>11, <1>12 DEF Ghash!Reduced

\* The powers of x multiplied by x.
LEMMA PowersOfX ==
    /\ \A k \in 0..126 : MulX({k}) = {k + 1}
    /\ MulX({127}) = QPoly
<1>1. \A k \in 0..127 : Ghash!Times({k}, {0}) = {k}
  <2>1. ASSUME NEW k \in 0..127 PROVE Ghash!Times({k}, {0}) = {k}
    <3>1. {0} \in Polys /\ {k} \in Polys
      <4>1. 0 \in 0..127
        OBVIOUS
      <4> QED BY <4>1, QPolyIs, Zenon
    <3>2. Ghash!Times({k}, {0}) = Ghash!Reduced(Ghash!Shifted({0}, k))
      BY <3>1, TimesPower
    <3>3. Ghash!Shifted({0}, k) = {k}
      BY DEF Ghash!Shifted
    <3>4. Ghash!Folded({k}) = {k}
      BY <3>1, FoldBounds
    <3> QED BY <3>2, <3>3, <3>4 DEF Ghash!Reduced
  <2> QED BY <2>1
<1>2. {0} \in Polys
  BY QPolyIs
<1>3. ASSUME NEW k \in 0..126 PROVE MulX({k}) = {k + 1}
  <2>1. k \in 0..127 /\ k + 1 \in 0..127
    OBVIOUS
  <2>2. Ghash!Times({k + 1}, {0}) = MulX(Ghash!Times({k}, {0}))
    BY <1>2, TimesPower
  <2> QED BY <1>1, <2>1, <2>2
<1>4. MulX({127}) = QPoly
  <2>1. MulX(Ghash!Times({127}, {0})) = Ghash!Times(QPoly, {0})
    BY <1>2, LastPower
  <2>2. Ghash!Times(QPoly, {0}) = Ghash!Sum2(Ghash!Sum2({0}, {1}), Ghash!Sum2({2}, {7}))
    <3>1. 0 \in 0..127 /\ 1 \in 0..127 /\ 2 \in 0..127 /\ 7 \in 0..127
      OBVIOUS
    <3> QED BY <1>1, <1>2, <3>1, TimesQPoly
  <2>3. 127 \in 0..127
    OBVIOUS
  <2> QED BY <1>1, <2>1, <2>2, <2>3, QPolyIs
<1> QED BY <1>3, <1>4

-----------------------------------------------------------------------------
\* A factor x goes through a product,
LEMMA TimesMulX ==
    ASSUME NEW b \in Polys, NEW p \in Polys
    PROVE  Ghash!Times(MulX(p), b) = MulX(Ghash!Times(p, b))
<1> DEFINE f == [q \in Polys |-> Ghash!Times(MulX(q), b)]
           g == [q \in Polys |-> MulX(Ghash!Times(q, b))]
<1>1. \A q \in Polys : f[q] = Ghash!Times(MulX(q), b) /\ g[q] = MulX(Ghash!Times(q, b))
  OBVIOUS
<1> HIDE DEF f, g
<1>2. IsLinear(f)
  <2>1. ASSUME NEW q \in Polys, NEW r0 \in Polys
        PROVE  f[Ghash!Sum2(q, r0)] = Ghash!Sum2(f[q], f[r0])
    <3>1. Ghash!Sum2(q, r0) \in Polys
      BY SumPolys
    <3>2. MulX(q) \in Polys /\ MulX(r0) \in Polys
      BY MulXLinear
    <3>3. MulX(Ghash!Sum2(q, r0)) = Ghash!Sum2(MulX(q), MulX(r0))
      BY MulXLinear
    <3>4. Ghash!Times(Ghash!Sum2(MulX(q), MulX(r0)), b)
            = Ghash!Sum2(Ghash!Times(MulX(q), b), Ghash!Times(MulX(r0), b))
      BY <3>2, TimesLinear
    <3> QED BY <1>1, <3>1, <3>3, <3>4
  <2> QED BY <2>1 DEF IsLinear
<1>3. IsLinear(g)
  <2>1. ASSUME NEW q \in Polys, NEW r0 \in Polys
        PROVE  g[Ghash!Sum2(q, r0)] = Ghash!Sum2(g[q], g[r0])
    <3>1. Ghash!Sum2(q, r0) \in Polys
      BY SumPolys
    <3>2. Ghash!Times(q, b) \in Polys
      BY TimesLinear
    <3>3. Ghash!Times(r0, b) \in Polys
      BY TimesLinear
    <3>4. Ghash!Times(Ghash!Sum2(q, r0), b) = Ghash!Sum2(Ghash!Times(q, b), Ghash!Times(r0, b))
      BY TimesLinear
    <3>5. MulX(Ghash!Sum2(Ghash!Times(q, b), Ghash!Times(r0, b)))
            = Ghash!Sum2(MulX(Ghash!Times(q, b)), MulX(Ghash!Times(r0, b)))
      BY <3>2, <3>3, MulXLinear
    <3> QED BY <1>1, <3>1, <3>4, <3>5
  <2> QED BY <2>1 DEF IsLinear
<1>4. ASSUME NEW k \in 0..127 PROVE f[{k}] = g[{k}]
  <2>1. {k} \in Polys
    BY QPolyIs
  <2>2. CASE k \in 0..126
    BY ZenonT(60), <1>1, <2>1, <2>2, PowersOfX, TimesPower
  <2>3. CASE k = 127
    <3>1. f[{127}] = Ghash!Times(MulX({127}), b) /\ g[{127}] = MulX(Ghash!Times({127}, b))
      BY <1>1, <2>1, <2>3
    <3> QED BY <2>3, <3>1, PowersOfX, LastPower
  <2> QED BY <2>2, <2>3
<1>5. f[p] = g[p]
  BY <1>2, <1>3, <1>4, LinearSame
<1> QED BY <1>1, <1>5

\* then any power of x,
LEMMA TimesMono ==
    ASSUME NEW b \in Polys, NEW p \in Polys, NEW k \in 0..127
    PROVE  Ghash!Times({k}, Ghash!Times(p, b)) = Ghash!Times(Ghash!Times({k}, p), b)
<1> DEFINE n0 == 127
           t == Ghash!Times(p, b)
           U == {m \in 0..n0 : Ghash!Times({m}, t) = Ghash!Times(Ghash!Times({m}, p), b)}
<1>0. t \in Polys
  BY TimesLinear
<1>1. 0 \in U
  <2>1. Ghash!Times({0}, t) = t
    BY <1>0, TimesPower
  <2>2. Ghash!Times({0}, p) = p
    BY TimesPower
  <2>3. 0 \in 0..n0
    OBVIOUS
  <2> QED BY <2>1, <2>2, <2>3
<1>2. ASSUME NEW m \in 1..n0, m - 1 \in U PROVE m \in U
  <2> DEFINE h == m - 1
  <2>1. h \in 0..126 /\ h + 1 = m /\ m \in 0..n0 /\ h \in 0..127
    OBVIOUS
  <2>2. Ghash!Times({h}, t) = Ghash!Times(Ghash!Times({h}, p), b)
    BY <1>2
  <2> HIDE DEF h, t
  <2>3. Ghash!Times({h + 1}, t) = MulX(Ghash!Times({h}, t))
    BY <1>0, <2>1, TimesPower
  <2>4. Ghash!Times({h + 1}, p) = MulX(Ghash!Times({h}, p))
    BY <2>1, TimesPower
  <2>5. {h} \in Polys
    BY <2>1, QPolyIs
  <2>6. Ghash!Times({h}, p) \in Polys
    BY <2>5, TimesLinear
  <2>7. Ghash!Times(MulX(Ghash!Times({h}, p)), b)
          = MulX(Ghash!Times(Ghash!Times({h}, p), b))
    BY <2>6, TimesMulX
  <2>8. Ghash!Times({m}, t) = Ghash!Times(Ghash!Times({m}, p), b)
    BY <2>1, <2>2, <2>3, <2>4, <2>7
  <2> QED BY <2>1, <2>8
<1>3. n0 \in Nat
  OBVIOUS
<1> HIDE DEF U
<1>4. \A m \in 0..n0 : m \in U
  <2> HIDE DEF n0
  <2> QED BY <1>1, <1>2, <1>3, Climbs
<1>5. k \in U
  BY <1>4
<1> QED BY <1>5 DEF U

\* and any other factor: the product is associative.
LEMMA TimesGroup ==
    ASSUME NEW b \in Polys, NEW p \in Polys, NEW c \in Polys
    PROVE  Ghash!Times(c, Ghash!Times(p, b)) = Ghash!Times(Ghash!Times(c, p), b)
<1> DEFINE t == Ghash!Times(p, b)
           f == [q \in Polys |-> Ghash!Times(q, t)]
           g == [q \in Polys |-> Ghash!Times(Ghash!Times(q, p), b)]
<1>1. \A q \in Polys : f[q] = Ghash!Times(q, t) /\ g[q] = Ghash!Times(Ghash!Times(q, p), b)
  OBVIOUS
<1> HIDE DEF f, g
<1>2. IsLinear(f)
  <2>1. ASSUME NEW q \in Polys, NEW r0 \in Polys
        PROVE  f[Ghash!Sum2(q, r0)] = Ghash!Sum2(f[q], f[r0])
    <3>1. Ghash!Sum2(q, r0) \in Polys
      BY SumPolys
    <3>2. Ghash!Times(Ghash!Sum2(q, r0), t) = Ghash!Sum2(Ghash!Times(q, t), Ghash!Times(r0, t))
      <4> HIDE DEF t
      <4> QED BY TimesLinear
    <3> QED BY <1>1, <3>1, <3>2
  <2> QED BY <2>1 DEF IsLinear
<1>3. IsLinear(g)
  <2>1. ASSUME NEW q \in Polys, NEW r0 \in Polys
        PROVE  g[Ghash!Sum2(q, r0)] = Ghash!Sum2(g[q], g[r0])
    <3>1. Ghash!Sum2(q, r0) \in Polys
      BY SumPolys
    <3>2. Ghash!Times(q, p) \in Polys
      BY TimesLinear
    <3>3. Ghash!Times(r0, p) \in Polys
      BY TimesLinear
    <3>4. Ghash!Times(Ghash!Sum2(q, r0), p) = Ghash!Sum2(Ghash!Times(q, p), Ghash!Times(r0, p))
      BY TimesLinear
    <3>5. Ghash!Times(Ghash!Sum2(Ghash!Times(q, p), Ghash!Times(r0, p)), b)
            = Ghash!Sum2(Ghash!Times(Ghash!Times(q, p), b), Ghash!Times(Ghash!Times(r0, p), b))
      BY <3>2, <3>3, TimesLinear
    <3> QED BY <1>1, <3>1, <3>4, <3>5
  <2> QED BY <2>1 DEF IsLinear
<1>4. ASSUME NEW k \in 0..127 PROVE f[{k}] = g[{k}]
  <2>1. {k} \in Polys
    BY QPolyIs
  <2> QED BY <1>1, <2>1, TimesMono
<1>5. f[c] = g[c]
  BY <1>2, <1>3, <1>4, LinearSame
<1> QED BY <1>1, <1>5

-----------------------------------------------------------------------------
\* The powers of b, as they are defined.
LEMMA PowersAre ==
    ASSUME NEW b \in Polys, NEW n, n \in Nat
    PROVE  /\ Ghash!Powers(b, n)[0] = b
           /\ \A k \in 1..n : Ghash!Powers(b, n)[k] = Ghash!Times(Ghash!Powers(b, n)[k - 1], b)
           /\ \A k \in 0..n : Ghash!Powers(b, n)[k] \in Polys
<1> DEFINE g == [x \in (1..n) \X Polys |-> Ghash!Times(x[2], b)]
<1>1. g \in [(1..n) \X Polys -> Polys]
  <2>1. ASSUME NEW x \in (1..n) \X Polys PROVE Ghash!Times(x[2], b) \in Polys
    <3>1. x[2] \in Polys
      OBVIOUS
    <3> QED BY <3>1, TimesLinear
  <2> QED BY <2>1
<1>2. \A k \in 1..n, y \in Polys : g[<<k, y>>] = Ghash!Times(y, b)
  OBVIOUS
<1> HIDE DEF g
<1>3. PICK h : h \in [0..n -> Polys] /\ h[0] = b /\ \A k \in 1..n : h[k] = g[<<k, h[k - 1]>>]
  <2>1. PICK h : RunsIn(h, g, n, Polys, b)
    BY <1>1, Repeated
  <2> QED BY <2>1 DEF RunsIn
<1>4. \A k \in 1..n : h[k] = Ghash!Times(h[k - 1], b)
  <2>1. \A k \in 1..n : k - 1 \in 0..n /\ h[k - 1] \in Polys
    BY <1>3
  <2> QED BY <1>2, <1>3, <2>1
<1> DEFINE F(f) == [k \in 0..n |-> IF k = 0 THEN b ELSE Ghash!Times(f[k - 1], b)]
           power == CHOOSE f : f = F(f)
<1>5. h = F(h)
  <2> DEFINE D == 0..n
  <2>1. \A k \in D : h[k] = IF k = 0 THEN b ELSE Ghash!Times(h[k - 1], b)
    BY <1>3, <1>4
  <2>2. h = [k \in D |-> h[k]]
    BY <1>3
  <2> HIDE DEF D
  <2>3. h = [k \in D |-> IF k = 0 THEN b ELSE Ghash!Times(h[k - 1], b)]
    BY <2>1, <2>2
  <2> QED BY <2>3 DEF D
<1>6. power = F(power)
  BY <1>5
<1>7. Ghash!Powers(b, n) = power
  BY DEF Ghash!Powers
<1> HIDE DEF power
<1>8. power[0] = b /\ \A k \in 1..n : power[k] = Ghash!Times(power[k - 1], b)
  BY <1>6
<1>9. \A k \in 0..n : power[k] \in Polys
  <2> DEFINE U == {k \in 0..n : power[k] \in Polys}
  <2>1. 0 \in U
    BY <1>8
  <2>2. \A k \in 1..n : k - 1 \in U => k \in U
    BY <1>8, TimesLinear
  <2> HIDE DEF U
  <2>3. \A k \in 0..n : k \in U
    BY <2>1, <2>2, Climbs
  <2> QED BY <2>3 DEF U
<1> QED BY <1>7, <1>8, <1>9

\* How many there are does not matter.
LEMMA PowersSame ==
    ASSUME NEW b \in Polys, NEW n, n \in Nat, NEW k, k \in 0..n
    PROVE  Ghash!Powers(b, n + 1)[k] = Ghash!Powers(b, n)[k]
<1> DEFINE m == n + 1
           u == Ghash!Powers(b, n)
           w == Ghash!Powers(b, m)
           U == {j0 \in 0..n : w[j0] = u[j0]}
<1>1. m \in Nat /\ \A j0 \in 1..n : j0 \in 1..m
  OBVIOUS
<1>2. u[0] = b /\ \A j0 \in 1..n : u[j0] = Ghash!Times(u[j0 - 1], b)
  BY PowersAre
<1>3. w[0] = b /\ \A j0 \in 1..m : w[j0] = Ghash!Times(w[j0 - 1], b)
  <2> HIDE DEF m
  <2> QED BY <1>1, PowersAre
<1> HIDE DEF u, w, m
<1>4. 0 \in U
  BY <1>2, <1>3
<1>5. \A j0 \in 1..n : j0 - 1 \in U => j0 \in U
  BY <1>1, <1>2, <1>3
<1> HIDE DEF U
<1>6. \A j0 \in 0..n : j0 \in U
  BY <1>4, <1>5, Climbs
<1>7. w[k] = u[k]
  BY <1>6 DEF U
<1> QED BY <1>7 DEF u, w, m

\* A block is a polynomial,
LEMMA PolynomialType == \A x : Ghash!PolynomialOf(x) \in Polys
  BY DEF Ghash!PolynomialOf, Polys

\* The sum over the blocks.
TermOf(bs, b, k) ==
    Ghash!Times(Ghash!PolynomialOf(bs[k]), Ghash!Powers(b, Len(bs))[Len(bs) - k])

\* and so is what it adds to the sum,
LEMMA TermType ==
    ASSUME NEW b \in Polys, NEW bs, Len(bs) \in Nat, NEW k, k \in 1..Len(bs)
    PROVE  TermOf(bs, b, k) \in Polys
<1>1. Ghash!PolynomialOf(bs[k]) \in Polys
  BY PolynomialType
<1> QED BY <1>1, TimesLinear DEF TermOf

\* and the sum so far.
LEMMA TermsAre ==
    ASSUME NEW b \in Polys, NEW bs, Len(bs) \in Nat
    PROVE  /\ Ghash!Terms(bs, b)[0] = {}
           /\ \A k \in 1..Len(bs) :
                Ghash!Terms(bs, b)[k] = Ghash!Sum2(Ghash!Terms(bs, b)[k - 1], TermOf(bs, b, k))
           /\ \A k \in 0..Len(bs) : Ghash!Terms(bs, b)[k] \in Polys
<1> DEFINE n == Len(bs)
           none == {}
           T(k) == TermOf(bs, b, k)
           g == [x \in (1..n) \X Polys |-> Ghash!Sum2(x[2], T(x[1]))]
<1>0. n \in Nat /\ none \in Polys /\ \A k \in 1..n : T(k) \in Polys
  BY TermType DEF Polys
<1>a. Ghash!Terms(bs, b) =
        CHOOSE f : f = [k \in 0..n |-> IF k = 0 THEN none ELSE Ghash!Sum2(f[k - 1], T(k))]
  BY DEF Ghash!Terms, TermOf
<1> HIDE DEF n, T, none
<1>1. g \in [(1..n) \X Polys -> Polys]
  <2>1. ASSUME NEW x \in (1..n) \X Polys PROVE Ghash!Sum2(x[2], T(x[1])) \in Polys
    <3>1. x[2] \in Polys /\ x[1] \in 1..n
      OBVIOUS
    <3>2. T(x[1]) \in Polys
      BY <1>0, <3>1
    <3> QED BY <3>1, <3>2, SumPolys
  <2> QED BY <2>1
<1>2. \A k \in 1..n, y \in Polys : g[<<k, y>>] = Ghash!Sum2(y, T(k))
  OBVIOUS
<1> HIDE DEF g
<1>3. PICK h : h \in [0..n -> Polys] /\ h[0] = none /\ \A k \in 1..n : h[k] = g[<<k, h[k - 1]>>]
  <2>1. PICK h : RunsIn(h, g, n, Polys, none)
    BY <1>0, <1>1, Repeated
  <2> QED BY <2>1 DEF RunsIn
<1>4. \A k \in 1..n : h[k] = Ghash!Sum2(h[k - 1], T(k))
  <2>1. \A k \in 1..n : k - 1 \in 0..n /\ h[k - 1] \in Polys
    BY <1>0, <1>3
  <2> QED BY <1>2, <1>3, <2>1
<1> DEFINE F(f) == [k \in 0..n |-> IF k = 0 THEN none ELSE Ghash!Sum2(f[k - 1], T(k))]
           sum == CHOOSE f : f = F(f)
<1>5. h = F(h)
  <2> DEFINE D == 0..n
  <2>1. \A k \in D : h[k] = IF k = 0 THEN none ELSE Ghash!Sum2(h[k - 1], T(k))
    BY <1>0, <1>3, <1>4
  <2>2. h = [k \in D |-> h[k]]
    BY <1>3
  <2> HIDE DEF D
  <2>3. h = [k \in D |-> IF k = 0 THEN none ELSE Ghash!Sum2(h[k - 1], T(k))]
    BY <2>1, <2>2
  <2> QED BY <2>3 DEF D
<1>6. sum = F(sum)
  BY <1>5
<1>7. Ghash!Terms(bs, b) = sum
  BY <1>a
<1> HIDE DEF sum
<1>8. sum[0] = none /\ \A k \in 1..n : sum[k] = Ghash!Sum2(sum[k - 1], T(k))
  BY <1>0, <1>6
<1>9. \A k \in 0..n : sum[k] \in Polys
  <2> DEFINE U == {k \in 0..n : sum[k] \in Polys}
  <2>1. 0 \in U
    BY <1>0, <1>8
  <2>2. \A k \in 1..n : k - 1 \in U => k \in U
    BY <1>0, <1>8, SumPolys
  <2> HIDE DEF U
  <2>3. \A k \in 0..n : k \in U
    BY <1>0, <2>1, <2>2, Climbs
  <2> QED BY <2>3 DEF U
<1> QED BY <1>7, <1>8, <1>9 DEF n, T, none

-----------------------------------------------------------------------------
\* A block more: what was hashed before and the block are multiplied together.
LEMMA HashOn ==
    ASSUME NEW b \in Polys, NEW V, NEW bs \in Seq(V), NEW x \in V
    PROVE  /\ Ghash!Hash(bs, b) \in Polys
           /\ Ghash!Hash(Append(bs, x), b)
                = Ghash!Times(Ghash!Sum2(Ghash!Hash(bs, b), Ghash!PolynomialOf(x)), b)
<1> DEFINE n == Len(bs)
           m == n + 1
           cs == Append(bs, x)
           P(y) == Ghash!PolynomialOf(y)
           u == Ghash!Terms(bs, b)
           w == Ghash!Terms(cs, b)
           pw == Ghash!Powers(b, n)
           pm == Ghash!Powers(b, m)
<1>1. n \in Nat /\ m \in Nat /\ Len(cs) = m /\ cs[m] = x /\ (\A k \in 1..n : cs[k] = bs[k])
  OBVIOUS
<1>2. /\ u[0] = {} /\ \A k \in 0..n : u[k] \in Polys
      /\ \A k \in 1..n : u[k] = Ghash!Sum2(u[k - 1], TermOf(bs, b, k))
  BY <1>1, TermsAre
<1>3. /\ w[0] = {}
      /\ \A k \in 1..m : w[k] = Ghash!Sum2(w[k - 1], TermOf(cs, b, k))
  <2> HIDE DEF cs, m
  <2>1. Len(cs) \in Nat
    BY <1>1
  <2> QED BY <1>1, <2>1, TermsAre
<1>4. /\ pm[0] = b /\ \A k \in 1..m : pm[k] = Ghash!Times(pm[k - 1], b)
      /\ \A k \in 0..m : pm[k] \in Polys
  <2> HIDE DEF m
  <2> QED BY <1>1, PowersAre
<1>5. \A k \in 0..n : pm[k] = pw[k]
  BY <1>1, PowersSame
<1>6. \A y : P(y) \in Polys
  BY PolynomialType
<1> HIDE DEF u, w, pw, pm, P
<1>7. ASSUME NEW k \in 1..n
      PROVE  TermOf(cs, b, k) = Ghash!Times(TermOf(bs, b, k), b)
  <2> DEFINE d == n - k
  <2>1. d \in 0..n /\ d + 1 \in 1..m /\ m - k = d + 1 /\ (d + 1) - 1 = d /\ d \in 0..m
    BY <1>1
  <2>2. TermOf(cs, b, k) = Ghash!Times(P(bs[k]), pm[m - k])
    BY <1>1 DEF TermOf, P, pm
  <2>3. TermOf(bs, b, k) = Ghash!Times(P(bs[k]), pw[d])
    BY DEF TermOf, P, pw
  <2> HIDE DEF d, m
  <2>4. pm[m - k] = Ghash!Times(pm[d], b)
    BY <1>4, <2>1
  <2>5. pm[d] = pw[d] /\ pm[d] \in Polys
    BY <1>4, <1>5, <2>1
  <2>6. P(bs[k]) \in Polys
    BY <1>6
  <2>7. Ghash!Times(P(bs[k]), Ghash!Times(pm[d], b))
          = Ghash!Times(Ghash!Times(P(bs[k]), pm[d]), b)
    BY <2>5, <2>6, TimesGroup
  <2> QED BY <2>2, <2>3, <2>4, <2>5, <2>7
<1>8. TermOf(cs, b, m) = Ghash!Times(P(x), b)
  <2>1. m - m = 0
    BY <1>1
  <2>2. TermOf(cs, b, m) = Ghash!Times(P(x), pm[0])
    BY <1>1, <2>1 DEF TermOf, P, pm
  <2> QED BY <1>4, <2>2
<1> DEFINE U == {k \in 0..n : w[k] = Ghash!Times(u[k], b)}
<1>9. 0 \in U
  <2>1. w[0] = Ghash!Times(u[0], b)
    BY <1>2, <1>3, ProductOfNothing, Zenon
  <2> QED BY <1>1, <2>1
<1>10. ASSUME NEW k \in 1..n, k - 1 \in U PROVE k \in U
  <2>1. k - 1 \in 0..n /\ k \in 0..n /\ k \in 1..m
    BY <1>1
  <2>2. w[k - 1] = Ghash!Times(u[k - 1], b) /\ u[k - 1] \in Polys
    BY <1>2, <1>10, <2>1
  <2>3. w[k] = Ghash!Sum2(w[k - 1], TermOf(cs, b, k))
    BY <1>3, <2>1
  <2>4. u[k] = Ghash!Sum2(u[k - 1], TermOf(bs, b, k))
    BY <1>2
  <2>5. TermOf(bs, b, k) \in Polys
    BY <1>1, TermType
  <2>6. Ghash!Times(Ghash!Sum2(u[k - 1], TermOf(bs, b, k)), b)
          = Ghash!Sum2(Ghash!Times(u[k - 1], b), Ghash!Times(TermOf(bs, b, k), b))
    BY <2>2, <2>5, TimesLinear
  <2>7. w[k] = Ghash!Times(u[k], b)
    BY <1>7, <2>2, <2>3, <2>4, <2>6
  <2> QED BY <2>1, <2>7
<1>11. n \in 0..n /\ n \in U
  <2> HIDE DEF U
  <2>1. \A k \in 0..n : k \in U
    BY <1>1, <1>9, <1>10, Climbs
  <2> QED BY <1>1, <2>1
<1>12. w[n] = Ghash!Times(u[n], b) /\ u[n] \in Polys
  BY <1>2, <1>11
<1>13. w[m] = Ghash!Sum2(w[n], TermOf(cs, b, m))
  <2>1. m \in 1..m /\ m - 1 = n
    BY <1>1
  <2> HIDE DEF m
  <2>2. w[m] = Ghash!Sum2(w[m - 1], TermOf(cs, b, m))
    BY <1>3, <2>1
  <2> QED BY <2>1, <2>2
<1>14. Ghash!Times(Ghash!Sum2(u[n], P(x)), b)
         = Ghash!Sum2(Ghash!Times(u[n], b), Ghash!Times(P(x), b))
  BY <1>6, <1>12, TimesLinear
<1>15. Ghash!Hash(bs, b) = u[n] /\ Ghash!Hash(cs, b) = w[m]
  BY <1>1 DEF Ghash!Hash, u, w
<1> QED BY <1>8, <1>12, <1>13, <1>14, <1>15 DEF P

\* Of no blocks it is nothing.
LEMMA HashOfNone ==
    ASSUME NEW b \in Polys PROVE Ghash!Hash(<<>>, b) = {}
<1>1. Len(<<>>) = 0 /\ Len(<<>>) \in Nat
  OBVIOUS
<1>2. Ghash!Terms(<<>>, b)[0] = {}
  BY <1>1, TermsAre
<1> QED BY <1>1, <1>2 DEF Ghash!Hash

-----------------------------------------------------------------------------
\* GHASH computes with the same bytes.
LEMMA GhashBytes ==
    /\ Ghash!Byte = Byte /\ Ghash!Blocks = Word \X Word \X Word \X Word
    /\ \A a, b : Ghash!XorByte(a, b) = XorByte(a, b) /\ Ghash!XorWord(a, b) = XorWord(a, b)
    /\ \A a, k : Ghash!Bit(a, k) = Bit(a, k)
<1>1. \A a, b : Ghash!XorByte(a, b) = XorByte(a, b)
  BY DEF Ghash!XorByte, XorByte, Ghash!XorNibble, XorNibble
<1> QED BY <1>1 DEF Ghash!Byte, Byte, Ghash!Blocks, Ghash!Word, Word, Ghash!XorWord, XorWord,
           Ghash!Bit, Bit

HashBlocks == Word \X Word \X Word \X Word

\* Byte n of a block.
LEMMA OctetIs ==
    ASSUME NEW b
    PROVE  /\ Ghash!Octet(b, 0) = b[1][1] /\ Ghash!Octet(b, 1) = b[1][2]
           /\ Ghash!Octet(b, 2) = b[1][3] /\ Ghash!Octet(b, 3) = b[1][4]
           /\ Ghash!Octet(b, 4) = b[2][1] /\ Ghash!Octet(b, 5) = b[2][2]
           /\ Ghash!Octet(b, 6) = b[2][3] /\ Ghash!Octet(b, 7) = b[2][4]
           /\ Ghash!Octet(b, 8) = b[3][1] /\ Ghash!Octet(b, 9) = b[3][2]
           /\ Ghash!Octet(b, 10) = b[3][3] /\ Ghash!Octet(b, 11) = b[3][4]
           /\ Ghash!Octet(b, 12) = b[4][1] /\ Ghash!Octet(b, 13) = b[4][2]
           /\ Ghash!Octet(b, 14) = b[4][3] /\ Ghash!Octet(b, 15) = b[4][4]
  BY DEF Ghash!Octet

\* It is a byte.
LEMMA BlockByte ==
    ASSUME NEW b \in HashBlocks, NEW n \in 0..15 PROVE Ghash!Octet(b, n) \in Byte
<1>1. 1 + (n \div 4) \in 1..4 /\ 1 + (n % 4) \in 1..4
  OBVIOUS
<1>2. \A k \in 1..4 : b[k] \in Word
  BY DEF HashBlocks
<1>3. \A w \in Word : \A k \in 1..4 : w[k] \in Byte
  BY DEF Word
<1> DEFINE c == 1 + (n \div 4)
           r0 == 1 + (n % 4)
<1>4. c \in 1..4 /\ r0 \in 1..4 /\ Ghash!Octet(b, n) = b[c][r0]
  BY <1>1 DEF Ghash!Octet
<1> HIDE DEF c, r0
<1> QED BY <1>2, <1>3, <1>4

\* A word shifted down, and the whole block.
HalfOf(u, w) == 128 * (u % 2) + (w \div 2)
DownOf(c, w) == <<HalfOf(c, w[1]), HalfOf(w[1], w[2]), HalfOf(w[2], w[3]), HalfOf(w[3], w[4])>>

\* A word shifted down is a word,
LEMMA DownType ==
    ASSUME NEW c \in Byte, NEW w \in Word PROVE DownOf(c, w) \in Word
<1>1. \A x, y \in Byte : HalfOf(x, y) \in Byte
  BY DEF HalfOf, Byte
<1>2. w[1] \in Byte /\ w[2] \in Byte /\ w[3] \in Byte /\ w[4] \in Byte
  BY DEF Word
<1> QED BY <1>1, <1>2 DEF DownOf, Word

\* which is what the code does with one word,
LEMMA ShiftWordIs ==
    ASSUME NEW b \in HashBlocks, NEW k \in 1..4
    PROVE  Ghash!ShiftWord(b, k)
               = [b EXCEPT ![k] = DownOf(IF k = 1 THEN 0 ELSE b[k - 1][4], b[k])]
<1>1. \A x \in Byte : (x % 2) % 2 = x % 2 /\ 0 % 2 = 0
  BY DEF Byte
<1>2. k # 1 => b[k - 1][4] \in Byte
  BY DEF HashBlocks, Word
<1>3. k # 1 => (b[k - 1][4] % 2) % 2 = b[k - 1][4] % 2
  BY <1>1, <1>2
<1> QED BY <1>3 DEF Ghash!ShiftWord, DownOf, HalfOf

DownBlock(b) ==
    <<DownOf(0, b[1]), DownOf(b[1][4], b[2]), DownOf(b[2][4], b[3]), DownOf(b[3][4], b[4])>>

\* and the four of them, from the last to the first, are the block shifted down.
LEMMA RightIs ==
    ASSUME NEW b \in HashBlocks
    PROVE  Ghash!shift_right_block(b) = DownBlock(b) /\ DownBlock(b) \in HashBlocks
<1> DEFINE d1 == DownOf(0, b[1])
           d2 == DownOf(b[1][4], b[2])
           d3 == DownOf(b[2][4], b[3])
           d4 == DownOf(b[3][4], b[4])
<1>1. b = <<b[1], b[2], b[3], b[4]>>
      /\ b[1] \in Word /\ b[2] \in Word /\ b[3] \in Word /\ b[4] \in Word
  BY DEF HashBlocks
<1>2. d1 \in Word /\ d2 \in Word /\ d3 \in Word /\ d4 \in Word
  <2>1. b[1][4] \in Byte /\ b[2][4] \in Byte /\ b[3][4] \in Byte /\ 0 \in Byte
    BY <1>1 DEF Word, Byte
  <2> QED BY <1>1, <2>1, DownType
<1> DEFINE s4 == Ghash!ShiftWord(b, 4)
           s3 == Ghash!ShiftWord(s4, 3)
           s2 == Ghash!ShiftWord(s3, 2)
           s1 == Ghash!ShiftWord(s2, 1)
<1>3. s4 = <<b[1], b[2], b[3], d4>>
  <2>1. s4 = [b EXCEPT ![4] = DownOf(b[3][4], b[4])]
    BY ShiftWordIs
  <2> HIDE DEF s4
  <2> QED BY <1>1, <2>1
<1>4. s3 = <<b[1], b[2], d3, d4>>
  <2> HIDE DEF d4
  <2>1. s4 \in HashBlocks /\ s4[3] = b[3] /\ s4[2] = b[2]
    BY <1>1, <1>2, <1>3 DEF HashBlocks
  <2> HIDE DEF s4
  <2>2. s3 = [s4 EXCEPT ![3] = DownOf(b[2][4], b[3])]
    BY <2>1, ShiftWordIs
  <2> HIDE DEF s3
  <2> QED BY <1>3, <2>2
<1>5. s2 = <<b[1], d2, d3, d4>>
  <2> HIDE DEF d3, d4
  <2>1. s3 \in HashBlocks /\ s3[2] = b[2] /\ s3[1] = b[1]
    BY <1>1, <1>2, <1>4 DEF HashBlocks
  <2> HIDE DEF s3
  <2>2. s2 = [s3 EXCEPT ![2] = DownOf(b[1][4], b[2])]
    BY <2>1, ShiftWordIs
  <2> HIDE DEF s2
  <2> QED BY <1>4, <2>2
<1>6. s1 = <<d1, d2, d3, d4>>
  <2> HIDE DEF d2, d3, d4
  <2>1. s2 \in HashBlocks /\ s2[1] = b[1]
    BY <1>1, <1>2, <1>5 DEF HashBlocks
  <2> HIDE DEF s2
  <2>2. s1 = [s2 EXCEPT ![1] = DownOf(0, b[1])]
    BY <2>1, ShiftWordIs
  <2> HIDE DEF s1
  <2> QED BY <1>5, <2>2
<1>7. Ghash!shift_right_block(b) = s1
  BY DEF Ghash!shift_right_block
<1>8. DownBlock(b) = <<d1, d2, d3, d4>>
  BY DEF DownBlock
<1> HIDE DEF s1, d1, d2, d3, d4
<1> QED BY <1>2, <1>6, <1>7, <1>8 DEF HashBlocks

\* Its bytes.
LEMMA DownOctets ==
    ASSUME NEW b \in HashBlocks, NEW n \in 0..15
    PROVE  Ghash!Octet(DownBlock(b), n)
               = HalfOf(IF n = 0 THEN 0 ELSE Ghash!Octet(b, n - 1), Ghash!Octet(b, n))
<1> DEFINE d == DownBlock(b)
<1>1. /\ d[1][1] = HalfOf(0, b[1][1]) /\ d[1][2] = HalfOf(b[1][1], b[1][2])
      /\ d[1][3] = HalfOf(b[1][2], b[1][3]) /\ d[1][4] = HalfOf(b[1][3], b[1][4])
      /\ d[2][1] = HalfOf(b[1][4], b[2][1]) /\ d[2][2] = HalfOf(b[2][1], b[2][2])
      /\ d[2][3] = HalfOf(b[2][2], b[2][3]) /\ d[2][4] = HalfOf(b[2][3], b[2][4])
      /\ d[3][1] = HalfOf(b[2][4], b[3][1]) /\ d[3][2] = HalfOf(b[3][1], b[3][2])
      /\ d[3][3] = HalfOf(b[3][2], b[3][3]) /\ d[3][4] = HalfOf(b[3][3], b[3][4])
      /\ d[4][1] = HalfOf(b[3][4], b[4][1]) /\ d[4][2] = HalfOf(b[4][1], b[4][2])
      /\ d[4][3] = HalfOf(b[4][2], b[4][3]) /\ d[4][4] = HalfOf(b[4][3], b[4][4])
  BY DEF DownBlock, DownOf
<1> HIDE DEF d
<1>2. \/ n = 0 \/ n = 1 \/ n = 2 \/ n = 3 \/ n = 4 \/ n = 5 \/ n = 6 \/ n = 7
      \/ n = 8 \/ n = 9 \/ n = 10 \/ n = 11 \/ n = 12 \/ n = 13 \/ n = 14 \/ n = 15
  OBVIOUS
<1>3. \A x : Ghash!Octet(x, n) = x[1 + (n \div 4)][1 + (n % 4)]
  BY DEF Ghash!Octet
<1>4. Ghash!Octet(d, n) = HalfOf(IF n = 0 THEN 0 ELSE Ghash!Octet(b, n - 1), Ghash!Octet(b, n))
  BY <1>1, <1>2, OctetIs
<1> QED BY <1>4 DEF d

-----------------------------------------------------------------------------
\* The coefficients of a block.
HasTerm(b, n) == Bit(Ghash!Octet(b, n \div 8), 7 - (n % 8)) = 1

\* By coefficients.
LEMMA TermsOfBlock ==
    ASSUME NEW b PROVE Ghash!PolynomialOf(b) = {n \in 0..127 : HasTerm(b, n)}
  BY GhashBytes DEF Ghash!PolynomialOf, Ghash!BitOf, HasTerm

\* Where a coefficient is, and the one before.
LEMMA TermPlaces ==
    \A n \in 0..127 :
        /\ n \div 8 \in 0..15 /\ n % 8 \in 0..7 /\ 7 - (n % 8) \in 0..7
        /\ n % 8 > 0 => (n - 1) \div 8 = n \div 8 /\ (n - 1) % 8 = (n % 8) - 1
        /\ n % 8 = 0 /\ n > 0 => (n - 1) \div 8 = (n \div 8) - 1 /\ (n - 1) % 8 = 7
        /\ n < 8 <=> n \div 8 = 0
        /\ n < 8 => n % 8 = n
  OBVIOUS

\* Blocks are added like polynomials.
LEMMA AddedTerms ==
    ASSUME NEW a \in HashBlocks, NEW b \in HashBlocks
    PROVE  /\ Ghash!xor_block(a, b) \in HashBlocks
           /\ Ghash!PolynomialOf(Ghash!xor_block(a, b))
                = Ghash!Sum2(Ghash!PolynomialOf(a), Ghash!PolynomialOf(b))
<1> DEFINE x == Ghash!xor_block(a, b)
<1>1. x = <<XorWord(a[1], b[1]), XorWord(a[2], b[2]), XorWord(a[3], b[3]), XorWord(a[4], b[4])>>
  BY GhashBytes DEF Ghash!xor_block
<1>2. \A k \in 1..4 : a[k] \in Word /\ b[k] \in Word
  BY DEF HashBlocks
<1>3. \A k \in 1..4 : x[k] = XorWord(a[k], b[k])
  BY <1>1
<1>4. x \in HashBlocks
  <2>1. \A v, w \in Word : XorWord(v, w) \in Word
    BY WordGroup
  <2> HIDE DEF x
  <2> QED BY <1>1, <1>2, <2>1 DEF HashBlocks
<1> HIDE DEF x
<1>5. ASSUME NEW n \in 0..15
      PROVE  Ghash!Octet(x, n) = XorByte(Ghash!Octet(a, n), Ghash!Octet(b, n))
  <2> DEFINE c == 1 + (n \div 4)
             d == 1 + (n % 4)
  <2>1. c \in 1..4 /\ d \in 1..4
    OBVIOUS
  <2>2. Ghash!Octet(x, n) = x[c][d] /\ Ghash!Octet(a, n) = a[c][d] /\ Ghash!Octet(b, n) = b[c][d]
    BY DEF Ghash!Octet
  <2> HIDE DEF c, d
  <2>3. x[c] = XorWord(a[c], b[c])
    BY <1>3, <2>1
  <2>4. \A v, w : XorWord(v, w)[d] = XorByte(v[d], w[d])
    BY <2>1 DEF XorWord
  <2> QED BY <2>2, <2>3, <2>4
<1>6. ASSUME NEW n \in 0..127
      PROVE  HasTerm(x, n) <=> ~(HasTerm(a, n) <=> HasTerm(b, n))
  <2> DEFINE o == n \div 8
             k == 7 - (n % 8)
             u == Ghash!Octet(a, o)
             w == Ghash!Octet(b, o)
  <2>1. o \in 0..15 /\ k \in 0..7
    BY TermPlaces
  <2>2. HasTerm(x, n) <=> Bit(Ghash!Octet(x, o), k) = 1
    BY DEF HasTerm
  <2>3. (HasTerm(a, n) <=> Bit(u, k) = 1) /\ (HasTerm(b, n) <=> Bit(w, k) = 1)
    BY DEF HasTerm
  <2> HIDE DEF o, k
  <2>4. u \in Byte /\ w \in Byte
    BY <2>1, BlockByte
  <2>5. Ghash!Octet(x, o) = XorByte(u, w)
    BY <1>5, <2>1
  <2> HIDE DEF u, w
  <2>6. Bit(XorByte(u, w), k) = IF Bit(u, k) = Bit(w, k) THEN 0 ELSE 1
    BY <2>1, <2>4, BitsCorrect
  <2>7. Bit(u, k) \in {0, 1} /\ Bit(w, k) \in {0, 1}
    BY <2>1, <2>4, BitsCorrect
  <2> QED BY <2>2, <2>3, <2>5, <2>6, <2>7
<1>7. Ghash!PolynomialOf(x) = Ghash!Sum2(Ghash!PolynomialOf(a), Ghash!PolynomialOf(b))
  <2> DEFINE px == Ghash!PolynomialOf(x)
             pa == Ghash!PolynomialOf(a)
             pb == Ghash!PolynomialOf(b)
             D == 0..127
  <2>1. /\ \A n : (n \in px <=> n \in D /\ HasTerm(x, n))
        /\ \A n : (n \in pa <=> n \in D /\ HasTerm(a, n))
        /\ \A n : (n \in pb <=> n \in D /\ HasTerm(b, n))
    BY TermsOfBlock
  <2>2. \A n \in D : HasTerm(x, n) <=> ~(HasTerm(a, n) <=> HasTerm(b, n))
    BY <1>6
  <2> HIDE DEF px, pa, pb, D
  <2>3. \A n : (n \in px <=> ~(n \in pa <=> n \in pb))
    BY <2>1, <2>2
  <2>4. px = Ghash!Sum2(pa, pb)
    BY <2>3, SumHas
  <2> QED BY <2>4 DEF px, pa, pb
<1> QED BY <1>4, <1>7 DEF x

\* Shifted down every coefficient is one higher,
LEMMA DownTerms ==
    ASSUME NEW b \in HashBlocks, NEW n \in 0..127
    PROVE  HasTerm(DownBlock(b), n) <=> n > 0 /\ HasTerm(b, n - 1)
<1> DEFINE o == n \div 8
           k == 7 - (n % 8)
           x == Ghash!Octet(b, o)
           h == IF o = 0 THEN 0 ELSE Ghash!Octet(b, o - 1)
           c == h % 2
           dn == Ghash!Octet(DownBlock(b), o)
<1>1. o \in 0..15 /\ k \in 0..7
  BY TermPlaces
<1>2. dn = (128 * c) + (x \div 2)
  <2> HIDE DEF o
  <2>1. dn = HalfOf(h, x)
    BY <1>1, DownOctets
  <2> QED BY <2>1 DEF HalfOf
<1>3. x \in Byte /\ h \in Byte /\ c \in {0, 1}
  <2> HIDE DEF o
  <2>1. x \in Byte
    BY <1>1, BlockByte
  <2>2. o # 0 => o - 1 \in 0..15
    BY <1>1
  <2>3. o # 0 => Ghash!Octet(b, o - 1) \in Byte
    BY <2>2, BlockByte
  <2>4. h \in Byte
    BY <2>3 DEF Byte
  <2> HIDE DEF h, x
  <2>5. c \in {0, 1}
    BY <2>4 DEF Byte
  <2> QED BY <2>1, <2>4, <2>5
<1>4. HasTerm(DownBlock(b), n) <=> Bit(dn, k) = 1
  BY DEF HasTerm
<1> HIDE DEF dn, c
<1>5. Bit(dn, 7) = c /\ \A m \in 0..6 : Bit(dn, m) = Bit(x, m + 1)
  <2> HIDE DEF x
  <2>1. LET down == 128 * c + x \div 2
        IN  Bit(down, 7) = c /\ \A m \in 0..6 : Bit(down, m) = Bit(x, m + 1)
    BY <1>3, BitsCorrect
  <2> QED BY <1>2, <2>1
<1>6. CASE n % 8 > 0
  <2>1. n > 0 /\ (n - 1) \div 8 = o /\ 7 - ((n - 1) % 8) = k + 1 /\ k \in 0..6
    BY <1>1, <1>6, TermPlaces
  <2>2. HasTerm(b, n - 1) <=> Bit(x, k + 1) = 1
    BY <2>1 DEF HasTerm
  <2> HIDE DEF x, k
  <2> QED BY <1>4, <1>5, <2>1, <2>2
<1>7. CASE n % 8 = 0 /\ n > 0
  <2>1. (n - 1) \div 8 = o - 1 /\ 7 - ((n - 1) % 8) = 0 /\ k = 7 /\ o # 0
    BY <1>7, TermPlaces
  <2>2. HasTerm(b, n - 1) <=> Bit(h, 0) = 1
    BY <2>1 DEF HasTerm
  <2> HIDE DEF h, k, o
  <2>3. Bit(h, 0) = c
    BY <1>3, BitsCorrect DEF c
  <2> QED BY <1>4, <1>5, <1>7, <2>1, <2>2, <2>3
<1>8. CASE n = 0
  <2>1. o = 0 /\ k = 7
    BY <1>8
  <2>2. c = 0
    BY <2>1 DEF c
  <2> HIDE DEF k, o
  <2> QED BY <1>4, <1>5, <1>8, <2>1, <2>2
<1>9. n % 8 > 0 \/ (n % 8 = 0 /\ n > 0) \/ n = 0
  BY TermPlaces
<1> QED BY <1>6, <1>7, <1>8, <1>9

-----------------------------------------------------------------------------
\* and the coefficient that falls out comes back in its first byte.
NextV(b) ==
    LET w == Ghash!shift_right_block(b)
    IN  IF Ghash!Octet(b, 15) % 2 = 1 THEN [w EXCEPT ![1][1] = Ghash!XorByte(@, 225)] ELSE w

\* The coefficients of a polynomial times X,
LEMMA MulXHas ==
    ASSUME NEW p \in Polys, NEW x \in 0..127
    PROVE  x \in MulX(p) <=> ~(x - 1 \in p <=> (127 \in p /\ x \in QPoly))
<1> DEFINE sh == Ghash!Shifted(p, 1)
<1>1. p \subseteq Nat /\ p \subseteq 0..127
  BY PolysInNat DEF Polys
<1>2. sh \subseteq Nat /\ \A y \in Nat : (y \in sh <=> y - 1 \in p)
  <2>1. 1 \in Nat
    OBVIOUS
  <2> QED BY <1>1, <2>1, ShiftHas
<1>3. x \in MulX(p) <=> FoldedTerm(x < 128, x >= 1, x >= 2, x >= 7, x \in sh,
                          x + 128 \in sh, x + 127 \in sh, x + 126 \in sh, x + 121 \in sh)
  <2>1. x \in Nat
    OBVIOUS
  <2> QED BY <1>2, <2>1, FoldHas DEF FoldedTerm, MulX
<1> HIDE DEF sh
<1>4. /\ x \in sh <=> x - 1 \in p
      /\ x + 128 \in sh <=> x + 127 \in p
      /\ x + 127 \in sh <=> x + 126 \in p
      /\ x + 126 \in sh <=> x + 125 \in p
      /\ x + 121 \in sh <=> x + 120 \in p
  <2>1. /\ x + 128 \in Nat /\ x + 127 \in Nat /\ x + 126 \in Nat /\ x + 121 \in Nat /\ x \in Nat
        /\ (x + 128) - 1 = x + 127 /\ (x + 127) - 1 = x + 126 /\ (x + 126) - 1 = x + 125
        /\ (x + 121) - 1 = x + 120
    OBVIOUS
  <2> QED BY <1>2, <2>1
<1>5. /\ x + 127 \in p <=> x = 0 /\ 127 \in p
      /\ x >= 1 /\ x + 126 \in p <=> x = 1 /\ 127 \in p
      /\ x >= 2 /\ x + 125 \in p <=> x = 2 /\ 127 \in p
      /\ x >= 7 /\ x + 120 \in p <=> x = 7 /\ 127 \in p
      /\ x < 128
  <2>1. \A k \in {120, 125, 126, 127} : x + k \in p => x + k <= 127
    BY <1>1
  <2>2. x + 127 \in p <=> x = 0 /\ 127 \in p
    BY <2>1
  <2>3. x >= 1 /\ x + 126 \in p <=> x = 1 /\ 127 \in p
    BY <2>1
  <2>4. x >= 2 /\ x + 125 \in p <=> x = 2 /\ 127 \in p
    BY <2>1
  <2>5. x >= 7 /\ x + 120 \in p <=> x = 7 /\ 127 \in p
    BY <2>1
  <2> QED BY <2>2, <2>3, <2>4, <2>5
<1>6. x \in QPoly <=> x = 0 \/ x = 1 \/ x = 2 \/ x = 7
  BY DEF QPoly
<1> QED BY <1>3, <1>4, <1>5, <1>6 DEF FoldedTerm

\* and so the code multiplies by X.
LEMMA NextVIs ==
    ASSUME NEW b \in HashBlocks
    PROVE  /\ NextV(b) \in HashBlocks
           /\ Ghash!PolynomialOf(NextV(b)) = MulX(Ghash!PolynomialOf(b))
<1> DEFINE w == DownBlock(b)
           t == [w EXCEPT ![1][1] = XorByte(@, 225)]
           p == Ghash!PolynomialOf(b)
           x == NextV(b)
<1>1. w \in HashBlocks
  BY RightIs
<1>2. x = IF Ghash!Octet(b, 15) % 2 = 1 THEN t ELSE w
  BY RightIs, GhashBytes DEF NextV
<1>3. 127 \in p <=> Ghash!Octet(b, 15) % 2 = 1
  <2>1. 127 \div 8 = 15 /\ 7 - (127 % 8) = 0 /\ 127 \in 0..127 /\ 15 \in 0..15
    OBVIOUS
  <2>2. 127 \in p <=> Bit(Ghash!Octet(b, 15), 0) = 1
    BY <2>1, TermsOfBlock DEF HasTerm
  <2>3. Ghash!Octet(b, 15) \in Byte
    BY <2>1, BlockByte
  <2> QED BY <2>2, <2>3, BitsCorrect
<1>4. \A n \in 0..127 : HasTerm(w, n) <=> n > 0 /\ HasTerm(b, n - 1)
  BY DownTerms
<1>5. p \in Polys /\ \A n : (n \in p <=> n \in 0..127 /\ HasTerm(b, n))
  BY TermsOfBlock, PolynomialType
<1> HIDE DEF w, x, p
<1>6. \A n \in 0..127 : (HasTerm(w, n) <=> n - 1 \in p)
  <2>1. \A n \in 0..127 : (n > 0 <=> n - 1 \in 0..127)
    OBVIOUS
  <2> QED BY <1>4, <1>5, <2>1
<1>7. t \in HashBlocks /\ Ghash!Octet(t, 0) = XorByte(Ghash!Octet(w, 0), 225)
      /\ \A n \in 1..15 : Ghash!Octet(t, n) = Ghash!Octet(w, n)
  <2>1. w[1] \in Word /\ w[2] \in Word /\ w[3] \in Word /\ w[4] \in Word
        /\ w = <<w[1], w[2], w[3], w[4]>>
    BY <1>1 DEF HashBlocks
  <2> DEFINE f == w[1]
             f1 == [f EXCEPT ![1] = XorByte(@, 225)]
  <2>2. f \in Word /\ f[1] \in Byte /\ f[2] \in Byte /\ f[3] \in Byte /\ f[4] \in Byte
        /\ f = <<f[1], f[2], f[3], f[4]>>
    BY <2>1 DEF Word
  <2> HIDE DEF f
  <2>3. f1 = <<XorByte(f[1], 225), f[2], f[3], f[4]>>
    BY <2>2
  <2>4. XorByte(f[1], 225) \in Byte
    <3>1. 225 \in Byte
      BY DEF Byte
    <3> QED BY <2>2, <3>1, XorType
  <2>5. f1 \in Word
    BY <2>2, <2>3, <2>4 DEF Word
  <2>6. t = [w EXCEPT ![1] = f1]
    BY DEF f
  <2> HIDE DEF t, f1
  <2>7. t = <<f1, w[2], w[3], w[4]>>
    BY <2>1, <2>6
  <2>8. t \in HashBlocks
    BY <2>1, <2>5, <2>7 DEF HashBlocks
  <2>9. Ghash!Octet(t, 0) = XorByte(Ghash!Octet(w, 0), 225)
    <3>1. Ghash!Octet(t, 0) = t[1][1] /\ Ghash!Octet(w, 0) = w[1][1]
      BY OctetIs
    <3> QED BY <2>3, <2>7, <3>1 DEF f
  <2>10. ASSUME NEW n \in 1..15 PROVE Ghash!Octet(t, n) = Ghash!Octet(w, n)
    <3> DEFINE c == 1 + (n \div 4)
               d == 1 + (n % 4)
    <3>1. c \in 1..4 /\ d \in 1..4 /\ (c = 1 => d # 1)
      OBVIOUS
    <3>2. Ghash!Octet(t, n) = t[c][d] /\ Ghash!Octet(w, n) = w[c][d]
      BY DEF Ghash!Octet
    <3> HIDE DEF c, d
    <3>3. CASE c = 1
      <4>1. t[1] = f1 /\ w[1] = f /\ d \in 2..4
        BY <2>7, <3>1, <3>3 DEF f
      <4>2. f1[d] = f[d]
        BY <2>3, <4>1
      <4> QED BY <3>2, <3>3, <4>1, <4>2
    <3>4. CASE c # 1
      <4>1. c = 2 \/ c = 3 \/ c = 4
        BY <3>1, <3>4
      <4>2. t[c] = w[c]
        BY <2>7, <4>1
      <4> QED BY <3>2, <4>2
    <3> QED BY <3>3, <3>4
  <2> QED BY <2>8, <2>9, <2>10
<1> HIDE DEF t
<1>8. ASSUME NEW n \in 0..127
      PROVE  HasTerm(t, n) <=> ~(HasTerm(w, n) <=> n \in QPoly)
  <2>1. CASE n < 8
    <3> DEFINE u == Ghash!Octet(w, 0)
    <3>1. n \div 8 = 0 /\ n % 8 = n /\ n \in 0..7 /\ 7 - n \in 0..7 /\ 0 \in 0..15
      BY <2>1, TermPlaces
    <3>2. (HasTerm(t, n) <=> Bit(Ghash!Octet(t, 0), 7 - n) = 1)
          /\ (HasTerm(w, n) <=> Bit(u, 7 - n) = 1)
      BY <3>1 DEF HasTerm
    <3>3. u \in Byte /\ 225 \in Byte
      <4>1. u \in Byte
        BY <1>1, <3>1, BlockByte
      <4>2. 225 \in Byte
        BY DEF Byte
      <4> QED BY <4>1, <4>2
    <3> HIDE DEF u
    <3>4. Bit(XorByte(u, 225), 7 - n) = IF Bit(u, 7 - n) = Bit(225, 7 - n) THEN 0 ELSE 1
      BY <3>1, <3>3, BitsCorrect
    <3>5. Bit(u, 7 - n) \in {0, 1}
      BY <3>1, <3>3, BitsCorrect
    <3>6. Bit(225, 7 - n) = IF n \in QPoly THEN 1 ELSE 0
      BY <3>1, PadBits DEF QPoly
    <3>7. Ghash!Octet(t, 0) = XorByte(u, 225)
      BY <1>7 DEF u
    <3> QED BY <3>2, <3>4, <3>5, <3>6, <3>7
  <2>2. CASE ~(n < 8)
    <3>1. n \div 8 \in 1..15 /\ ~(n \in QPoly)
      BY <2>2 DEF QPoly
    <3>2. HasTerm(t, n) <=> HasTerm(w, n)
      BY <1>7, <3>1 DEF HasTerm
    <3> QED BY <3>1, <3>2
  <2> QED BY <2>1, <2>2
<1>9. x \in HashBlocks
  BY <1>1, <1>2, <1>7
<1>10. \A n \in 0..127 : (HasTerm(x, n) <=> n \in MulX(p))
  <2>1. ASSUME NEW n \in 0..127 PROVE HasTerm(x, n) <=> n \in MulX(p)
    <3>1. n \in MulX(p) <=> ~(n - 1 \in p <=> (127 \in p /\ n \in QPoly))
      BY <1>5, MulXHas
    <3>2. CASE 127 \in p
      BY <1>2, <1>3, <1>6, <1>8, <3>1, <3>2
    <3>3. CASE ~(127 \in p)
      BY <1>2, <1>3, <1>6, <3>1, <3>3
    <3> QED BY <3>2, <3>3
  <2> QED BY <2>1
<1>11. MulX(p) \in Polys
  <2>1. p \in Polys
    BY <1>5
  <2> QED BY <2>1, MulXLinear
<1>12. Ghash!PolynomialOf(x) = MulX(p)
  <2>1. Ghash!PolynomialOf(x) = {n \in 0..127 : HasTerm(x, n)}
    BY TermsOfBlock
  <2>2. \A n \in MulX(p) : n \in 0..127
    BY <1>11 DEF Polys
  <2> QED BY <1>10, <2>1, <2>2
<1> QED BY <1>9, <1>12 DEF x, p

-----------------------------------------------------------------------------
\* Sixteen bytes of the data from offset q on, filled up with zeros.
FilledBytes(x, q) == [p \in 0..15 |-> IF q + p < Len(x) THEN x[(q + p) + 1] ELSE 0]
FilledBlock(x, q) == Ghash!BlockOf(FilledBytes(x, q))
Taken(n) == (n + 15) \div 16

\* Sixteen bytes are a block,
LEMMA BlockOfBytes ==
    ASSUME NEW o, \A p \in 0..15 : o[p] \in Byte
    PROVE  Ghash!BlockOf(o) \in HashBlocks
<1>1. /\ o[0] \in Byte /\ o[1] \in Byte /\ o[2] \in Byte /\ o[3] \in Byte
      /\ o[4] \in Byte /\ o[5] \in Byte /\ o[6] \in Byte /\ o[7] \in Byte
      /\ o[8] \in Byte /\ o[9] \in Byte /\ o[10] \in Byte /\ o[11] \in Byte
      /\ o[12] \in Byte /\ o[13] \in Byte /\ o[14] \in Byte /\ o[15] \in Byte
  OBVIOUS
<1>2. /\ <<o[0], o[1], o[2], o[3]>> \in Word /\ <<o[4], o[5], o[6], o[7]>> \in Word
      /\ <<o[8], o[9], o[10], o[11]>> \in Word /\ <<o[12], o[13], o[14], o[15]>> \in Word
  BY <1>1 DEF Word
<1> QED BY <1>2 DEF Ghash!BlockOf, HashBlocks

\* those of the data as well.
LEMMA FilledBlockType ==
    ASSUME NEW x \in Seq(Byte), NEW q \in Nat PROVE FilledBlock(x, q) \in HashBlocks
<1> DEFINE o == FilledBytes(x, q)
<1>1. ASSUME NEW p \in 0..15 PROVE o[p] \in Byte
  <2>1. o[p] = IF q + p < Len(x) THEN x[(q + p) + 1] ELSE 0
    BY DEF FilledBytes
  <2>2. q + p < Len(x) => (q + p) + 1 \in 1..Len(x)
    OBVIOUS
  <2>3. 0 \in Byte
    BY DEF Byte
  <2>4. \A k \in 1..Len(x) : x[k] \in Byte
    OBVIOUS
  <2> QED BY <2>1, <2>2, <2>3, <2>4
<1> HIDE DEF o
<1>2. Ghash!BlockOf(o) \in HashBlocks
  BY <1>1, BlockOfBytes
<1> QED BY <1>2 DEF FilledBlock, o

\* The block of zeros is the polynomial without terms.
LEMMA ZeroBlockIs ==
    Ghash!ZeroBlock \in HashBlocks /\ Ghash!PolynomialOf(Ghash!ZeroBlock) = {}
<1> DEFINE b == Ghash!ZeroBlock
<1>1. b = <<<<0, 0, 0, 0>>, <<0, 0, 0, 0>>, <<0, 0, 0, 0>>, <<0, 0, 0, 0>>>>
  BY DEF Ghash!ZeroBlock, Ghash!ZeroWord
<1>2. b \in HashBlocks
  BY <1>1 DEF HashBlocks, Word, Byte
<1>3. \A n \in 0..15 : Ghash!Octet(b, n) = 0
  <2>1. \A n \in 0..15 : 1 + (n \div 4) \in 1..4 /\ 1 + (n % 4) \in 1..4
    OBVIOUS
  <2>2. \A c, d \in 1..4 : b[c][d] = 0
    BY <1>1
  <2> HIDE DEF b
  <2> QED BY <2>1, <2>2 DEF Ghash!Octet
<1> HIDE DEF b
<1>4. \A n \in 0..127 : ~HasTerm(b, n)
  <2>1. ASSUME NEW n \in 0..127 PROVE ~HasTerm(b, n)
    <3> DEFINE o == n \div 8
               k == 7 - (n % 8)
    <3>1. o \in 0..15 /\ k \in 0..7
      BY TermPlaces
    <3>2. HasTerm(b, n) <=> Bit(Ghash!Octet(b, o), k) = 1
      BY DEF HasTerm
    <3> HIDE DEF o, k
    <3>3. Bit(0, k) = 0
      <4>1. 0 \in Byte
        BY DEF Byte
      <4>2. XorByte(0, 0) = 0
        BY <4>1, XorUnit
      <4>3. Bit(XorByte(0, 0), k) = IF Bit(0, k) = Bit(0, k) THEN 0 ELSE 1
        BY <3>1, <4>1, BitsCorrect
      <4> QED BY <4>2, <4>3
    <3> QED BY <1>3, <3>1, <3>2, <3>3
  <2> QED BY <2>1
<1>5. Ghash!PolynomialOf(b) = {}
  BY <1>4, TermsOfBlock
<1> QED BY <1>2, <1>5 DEF b

\* The blocks of one call.
LEMMA PaddedIs ==
    ASSUME NEW x \in Seq(Byte)
    PROVE  /\ Ghash!Padded(x) \in Seq(HashBlocks)
           /\ Len(Ghash!Padded(x)) = Taken(Len(x)) /\ Taken(Len(x)) \in Nat
           /\ \A k \in 1..Taken(Len(x)) : Ghash!Padded(x)[k] = FilledBlock(x, 16 * (k - 1))
<1> DEFINE n == Taken(Len(x))
           f == [k \in 1..n |-> FilledBlock(x, 16 * (k - 1))]
<1>1. n \in Nat
  BY DEF Taken
<1>2. Ghash!Padded(x) = f
  <2>1. Ghash!Block = 16 /\ n = (Len(x) + 16 - 1) \div 16
    BY DEF Ghash!Block, Taken
  <2> HIDE DEF n
  <2> QED BY <2>1 DEF Ghash!Padded, FilledBlock, FilledBytes
<1>3. \A k \in 1..n : FilledBlock(x, 16 * (k - 1)) \in HashBlocks
  <2>1. \A k \in 1..n : 16 * (k - 1) \in Nat
    BY <1>1
  <2> QED BY <2>1, FilledBlockType
<1> HIDE DEF n
<1>4. f \in Seq(HashBlocks) /\ Len(f) = n /\ \A k \in 1..n : f[k] = FilledBlock(x, 16 * (k - 1))
  BY <1>1, <1>3
<1> QED BY <1>1, <1>2, <1>4 DEF n

\* The blocks of all calls before.
UptoOf(cs) ==
    LET blocks[k \in 0..Len(cs)] ==
            IF k = 0 THEN <<>> ELSE blocks[k - 1] \o Ghash!Padded(cs[k])
    IN  blocks

\* What the specification says of the calls it has,
LEMMA PaddedUptoIs == Ghash!PaddedUpto = UptoOf(gCalls)
  BY DEF Ghash!PaddedUpto, UptoOf

\* call by call.
LEMMA BlocksUpto ==
    ASSUME NEW cs \in Seq(Seq(Byte))
    PROVE  /\ UptoOf(cs)[0] = <<>>
           /\ \A k \in 1..Len(cs) : UptoOf(cs)[k] = UptoOf(cs)[k - 1] \o Ghash!Padded(cs[k])
           /\ \A k \in 0..Len(cs) : UptoOf(cs)[k] \in Seq(HashBlocks)
<1> DEFINE n == Len(cs)
           none == <<>>
           V == Seq(HashBlocks)
           T(k) == Ghash!Padded(cs[k])
           J(u, k) == u \o T(k)
           g == [x \in (1..n) \X V |-> J(x[2], x[1])]
<1>0. n \in Nat /\ none \in V
  OBVIOUS
<1>0a. \A k \in 1..n : T(k) \in V
  <2>1. \A k \in 1..n : cs[k] \in Seq(Byte)
    OBVIOUS
  <2> HIDE DEF n
  <2> QED BY <2>1, PaddedIs
<1>a. UptoOf(cs) = CHOOSE f : f = [k \in 0..n |-> IF k = 0 THEN none ELSE J(f[k - 1], k)]
  BY DEF UptoOf
<1>b. \A u \in V, k \in 1..n : J(u, k) \in V
  <2> HIDE DEF T, n
  <2>1. \A u, w : u \in Seq(HashBlocks) /\ w \in Seq(HashBlocks) => u \o w \in Seq(HashBlocks)
    OBVIOUS
  <2> QED BY <1>0a, <2>1
<1>c. \A u, k : J(u, k) = u \o Ghash!Padded(cs[k])
  OBVIOUS
<1> HIDE DEF n, T, V, none, J
<1>1. g \in [(1..n) \X V -> V]
  <2>1. ASSUME NEW x \in (1..n) \X V PROVE J(x[2], x[1]) \in V
    <3>1. x[2] \in V /\ x[1] \in 1..n
      OBVIOUS
    <3> QED BY <1>b, <3>1
  <2> QED BY <2>1
<1>2. \A k \in 1..n, y \in V : g[<<k, y>>] = J(y, k)
  OBVIOUS
<1> HIDE DEF g
<1>3. PICK h : h \in [0..n -> V] /\ h[0] = none /\ \A k \in 1..n : h[k] = g[<<k, h[k - 1]>>]
  <2>1. PICK h : RunsIn(h, g, n, V, none)
    BY <1>0, <1>1, Repeated
  <2> QED BY <2>1 DEF RunsIn
<1>4. \A k \in 1..n : h[k] = J(h[k - 1], k)
  <2>1. \A k \in 1..n : k - 1 \in 0..n /\ h[k - 1] \in V
    BY <1>0, <1>3
  <2> QED BY <1>2, <1>3, <2>1
<1> DEFINE F(f) == [k \in 0..n |-> IF k = 0 THEN none ELSE J(f[k - 1], k)]
           blocks == CHOOSE f : f = F(f)
<1>5. h = F(h)
  <2> DEFINE D == 0..n
  <2>1. \A k \in D : h[k] = IF k = 0 THEN none ELSE J(h[k - 1], k)
    BY <1>0, <1>3, <1>4
  <2>2. h = [k \in D |-> h[k]]
    BY <1>3
  <2> HIDE DEF D
  <2>3. h = [k \in D |-> IF k = 0 THEN none ELSE J(h[k - 1], k)]
    BY <2>1, <2>2
  <2> QED BY <2>3 DEF D
<1>6. blocks = F(blocks)
  BY <1>5
<1>7. UptoOf(cs) = blocks
  BY <1>a
<1> HIDE DEF blocks
<1>8. blocks[0] = none /\ \A k \in 1..n : blocks[k] = J(blocks[k - 1], k)
  BY <1>0, <1>6
<1>9. \A k \in 0..n : blocks[k] \in V
  <2> DEFINE U == {k \in 0..n : blocks[k] \in V}
  <2>1. 0 \in U
    BY <1>0, <1>8
  <2>2. \A k \in 1..n : k - 1 \in U => k \in U
    BY <1>0, <1>8, <1>b
  <2> HIDE DEF U
  <2>3. \A k \in 0..n : k \in U
    BY <1>0, <2>1, <2>2, Climbs
  <2> QED BY <2>3 DEF U
<1> QED BY <1>7, <1>8, <1>9, <1>c DEF n, V, none

-----------------------------------------------------------------------------
\* GHASH: the blocks hashed are those of the calls before and of this one as far as it has got;
\* v is H times the power of x that is due, z what is multiplied; and y is the polynomial of the
\* blocks, or the product at work will be.
Poly(b) == Ghash!PolynomialOf(b)
HashLen == IF gCall <= Len(gCalls) THEN Len(gCalls[gCall]) ELSE 0

GhashTypes ==
    /\ gPc \in {"loop", "mult"}
    /\ gH \in HashBlocks /\ gCalls \in Seq(Seq(Byte)) /\ gCall \in 1..(Len(gCalls) + 1)
    /\ gY \in HashBlocks /\ gMx \in HashBlocks /\ gZ \in HashBlocks /\ gV \in HashBlocks
    /\ gBit \in 0..128 /\ gHashed \in Seq(HashBlocks)

GhashPlace ==
    /\ gXpos \in 0..HashLen
    /\ gXpos = 16 * Taken(gXpos) \/ gXpos = HashLen

GhashBlocks ==
    LET U == UptoOf(gCalls)[gCall - 1]
    IN  /\ Len(gHashed) = Len(U) + Taken(gXpos)
        /\ \A k \in 1..Len(U) : gHashed[k] = U[k]
        /\ \A k \in 1..Taken(gXpos) :
             gHashed[Len(U) + k] = FilledBlock(gCalls[gCall], 16 * (k - 1))

GhashProduct ==
    gPc = "mult" =>
        /\ Poly(gV) = Ghash!Reduced(Ghash!Shifted(Poly(gH), gBit))
        /\ Poly(gZ) = Ghash!Times({n \in Poly(gMx) : n < gBit}, Poly(gH))
        /\ Ghash!Hash(gHashed, Poly(gH)) = Ghash!Times(Poly(gMx), Poly(gH))

GhashSum == gPc = "loop" => Poly(gY) = Ghash!Hash(gHashed, Poly(gH))

GhashInv == GhashTypes /\ GhashPlace /\ GhashBlocks /\ GhashProduct /\ GhashSum

\* A block more, full or not, is one block.
LEMMA TakenOne ==
    /\ Taken(0) = 0
    /\ \A n \in Nat : Taken(n) \in Nat
    /\ \A n \in Nat : n = 16 * Taken(n) => \A d \in 1..16 : Taken(n + d) = Taken(n) + 1
  BY DEF Taken

\* It holds when ghash_start has returned,
LEMMA GhashStarts ==
    ASSUME Ghash!Inputs, Ghash!Init PROVE GhashInv
<1>1. gH \in HashBlocks /\ gCalls \in Seq(Seq(Byte))
  BY GhashBytes DEF Ghash!Inputs, Ghash!Init, HashBlocks
<1>2. gPc = "loop" /\ gCall = 1 /\ gXpos = 0 /\ gBit = 0 /\ gHashed = <<>>
      /\ gY = Ghash!ZeroBlock /\ gMx = Ghash!ZeroBlock /\ gZ = Ghash!ZeroBlock
      /\ gV = Ghash!ZeroBlock
  BY DEF Ghash!Init
<1>3. gCall \in 1..(Len(gCalls) + 1) /\ gHashed \in Seq(HashBlocks) /\ Len(gHashed) = 0
      /\ gCall - 1 = 0
  BY <1>1, <1>2
<1>4. GhashTypes
  BY <1>1, <1>2, <1>3, ZeroBlockIs DEF GhashTypes
<1>5. GhashPlace
  <2>1. HashLen \in Nat
    <3>1. gCall <= Len(gCalls) => gCalls[gCall] \in Seq(Byte)
      BY <1>1, <1>3
    <3> QED BY <3>1 DEF HashLen
  <2> QED BY <1>2, <2>1, TakenOne DEF GhashPlace
<1>6. GhashBlocks
  <2>1. UptoOf(gCalls)[0] = <<>> /\ Len(<<>>) = 0
    BY <1>1, BlocksUpto
  <2> QED BY <1>2, <1>3, <2>1, TakenOne DEF GhashBlocks
<1>7. GhashSum
  <2>1. Poly(gH) \in Polys
    BY PolynomialType DEF Poly
  <2>2. Ghash!Hash(<<>>, Poly(gH)) = {}
    BY <2>1, HashOfNone
  <2>3. Poly(gY) = {}
    BY <1>2, ZeroBlockIs DEF Poly
  <2> QED BY <1>2, <2>2, <2>3 DEF GhashSum
<1>8. GhashProduct
  BY <1>2 DEF GhashProduct
<1> QED BY <1>4, <1>5, <1>6, <1>7, <1>8 DEF GhashInv

\* A block joins those that are hashed, and the product begins.
BlockTaken(d) ==
    LET b == FilledBlock(gCalls[gCall], gXpos)
    IN  /\ gCall \in 1..Len(gCalls)
        /\ gXpos = 16 * Taken(gXpos) /\ d \in 1..16
        /\ gXpos + d <= HashLen /\ (d = 16 \/ gXpos + d = HashLen)
        /\ gXpos' = gXpos + d
        /\ gHashed' = Append(gHashed, b)
        /\ gY' = Ghash!xor_block(gY, b) /\ gMx' = gY' /\ gZ' = Ghash!ZeroBlock /\ gV' = gH
        /\ gBit' = 0 /\ gPc' = "mult"
        /\ UNCHANGED <<gH, gCalls, gCall>>

\* when a block is taken,
LEMMA BlockJoins ==
    ASSUME GhashInv, gPc = "loop", NEW d, BlockTaken(d) PROVE GhashInv'
<1> DEFINE x == gCalls[gCall]
           b == FilledBlock(x, gXpos)
           h == Poly(gH)
           c == Taken(gXpos)
<1>0. /\ gCall \in 1..Len(gCalls) /\ gXpos = 16 * c /\ d \in 1..16
      /\ gXpos + d <= HashLen /\ (d = 16 \/ gXpos + d = HashLen)
      /\ gXpos' = gXpos + d
      /\ gHashed' = Append(gHashed, b)
      /\ gY' = Ghash!xor_block(gY, b) /\ gMx' = gY' /\ gZ' = Ghash!ZeroBlock /\ gV' = gH
      /\ gBit' = 0 /\ gPc' = "mult"
      /\ gH' = gH /\ gCalls' = gCalls /\ gCall' = gCall
  BY DEF BlockTaken
<1>1. /\ gH \in HashBlocks /\ gCalls \in Seq(Seq(Byte)) /\ gY \in HashBlocks
      /\ gHashed \in Seq(HashBlocks) /\ gCall \in 1..(Len(gCalls) + 1)
  BY DEF GhashInv, GhashTypes
<1>2. x \in Seq(Byte) /\ HashLen = Len(x) /\ HashLen \in Nat /\ gXpos \in Nat /\ gXpos <= HashLen
  <2>1. x \in Seq(Byte)
    BY <1>0, <1>1
  <2>2. HashLen = Len(x)
    BY <1>0, <1>1 DEF HashLen
  <2> HIDE DEF x
  <2> QED BY <2>1, <2>2 DEF GhashInv, GhashPlace
<1>3. b \in HashBlocks /\ h \in Polys
  <2> HIDE DEF x
  <2> QED BY <1>2, FilledBlockType, PolynomialType DEF Poly
<1>4. Taken(gXpos + d) = c + 1 /\ c \in Nat
  BY <1>0, <1>2, TakenOne
<1>5. /\ gHashed' \in Seq(HashBlocks) /\ Len(gHashed') = Len(gHashed) + 1
      /\ gHashed'[Len(gHashed) + 1] = b
      /\ \A k \in 1..Len(gHashed) : gHashed'[k] = gHashed[k]
  <2> HIDE DEF b
  <2> QED BY <1>0, <1>1, <1>3, AppendIs
<1>6. gY' \in HashBlocks /\ Poly(gY') = Ghash!Sum2(Poly(gY), Poly(b))
  <2> HIDE DEF b
  <2> QED BY <1>0, <1>1, <1>3, AddedTerms DEF Poly
<1> HIDE DEF c
<1>7. GhashTypes'
  <2> HIDE DEF b
  <2> QED BY <1>0, <1>1, <1>5, <1>6, ZeroBlockIs DEF GhashTypes
<1>8. GhashPlace'
  <2>1. HashLen' = HashLen
    BY <1>0 DEF HashLen
  <2>2. Taken(gXpos)' = c + 1
    BY <1>0, <1>4 DEF c
  <2>3. gXpos' \in 0..HashLen /\ (gXpos' = 16 * (c + 1) \/ gXpos' = HashLen)
    BY <1>0, <1>2, <1>4
  <2> QED BY <2>1, <2>2, <2>3 DEF GhashPlace
<1>9. GhashBlocks'
  <2> DEFINE U == UptoOf(gCalls)[gCall - 1]
             m == Len(U)
  <2>1. U \in Seq(HashBlocks) /\ m \in Nat
    <3>1. gCall - 1 \in 0..Len(gCalls)
      BY <1>0, <1>1
    <3>2. U \in Seq(HashBlocks)
      BY <1>1, <3>1, BlocksUpto
    <3> QED BY <3>2
  <2>2. /\ Len(gHashed) = m + c
        /\ \A k \in 1..m : gHashed[k] = U[k]
        /\ \A k \in 1..c : gHashed[m + k] = FilledBlock(x, 16 * (k - 1))
    BY DEF GhashInv, GhashBlocks, c
  <2> HIDE DEF U, b, x
  <2>3. Len(gHashed') = m + (c + 1)
    BY <1>4, <1>5, <2>1, <2>2
  <2>4. \A k \in 1..m : gHashed'[k] = U[k]
    BY <1>4, <1>5, <2>1, <2>2
  <2>5. ASSUME NEW k \in 1..(c + 1) PROVE gHashed'[m + k] = FilledBlock(x, 16 * (k - 1))
    <3>1. CASE k = c + 1
      <4>1. m + k = Len(gHashed) + 1 /\ 16 * (k - 1) = gXpos
        BY <1>0, <1>4, <2>1, <2>2, <3>1
      <4> QED BY <1>5, <4>1 DEF b
    <3>2. CASE k \in 1..c
      <4>1. m + k \in 1..Len(gHashed)
        BY <1>4, <2>1, <2>2, <3>2
      <4> QED BY <1>5, <2>2, <3>2, <4>1
    <3> QED BY <1>4, <3>1, <3>2
  <2>6. UptoOf(gCalls)[gCall - 1]' = U
    BY <1>0 DEF U
  <2>7. Taken(gXpos)' = c + 1
    BY <1>0, <1>4
  <2>8. gCalls'[gCall'] = x
    BY <1>0 DEF x
  <2> QED BY <2>3, <2>4, <2>5, <2>6, <2>7, <2>8 DEF GhashBlocks
<1>10. GhashProduct'
  <2>1. Ghash!Hash(gHashed', h) = Ghash!Times(Poly(gY'), h)
    <3>1. Poly(gY) = Ghash!Hash(gHashed, h)
      BY DEF GhashInv, GhashSum
    <3> HIDE DEF b, h
    <3>2. Ghash!Hash(Append(gHashed, b), h)
            = Ghash!Times(Ghash!Sum2(Ghash!Hash(gHashed, h), Ghash!PolynomialOf(b)), h)
      BY <1>1, <1>3, HashOn
    <3> QED BY <1>0, <1>6, <3>1, <3>2 DEF Poly
  <2>2. Ghash!Reduced(Ghash!Shifted(h, 0)) = h
    <3> HIDE DEF h
    <3>1. 0 \in 0..127
      OBVIOUS
    <3>2. Ghash!Times({0}, h) = Ghash!Reduced(Ghash!Shifted(h, 0)) /\ Ghash!Times({0}, h) = h
      BY <1>3, <3>1, TimesPower
    <3> QED BY <3>2
  <2>3. {n \in Poly(gY') : n < 0} = {}
    <3>1. Poly(gY') \subseteq 0..127
      BY PolynomialType DEF Poly, Polys
    <3> QED BY <3>1
  <2>4. Ghash!Times({n \in Poly(gY') : n < 0}, h) = {}
    BY <2>3, ProductOfNothing, Zenon
  <2>5. Poly(Ghash!ZeroBlock) = {}
    BY ZeroBlockIs DEF Poly
  <2>6. /\ Poly(gH)' = h /\ Poly(gMx)' = Poly(gY') /\ Poly(gV)' = h
        /\ Poly(gZ)' = Poly(Ghash!ZeroBlock)
    BY <1>0
  <2> HIDE DEF h
  <2> QED BY <1>0, <2>1, <2>2, <2>4, <2>5, <2>6 DEF GhashProduct
<1>11. GhashSum'
  BY <1>0 DEF GhashSum
<1> QED BY <1>7, <1>8, <1>9, <1>10, <1>11 DEF GhashInv

-----------------------------------------------------------------------------
\* A sequence behind another.
LEMMA BehindIs ==
    ASSUME NEW S0, NEW u \in Seq(S0), NEW w \in Seq(S0)
    PROVE  /\ Len(u \o w) = Len(u) + Len(w)
           /\ \A k \in 1..Len(u) : (u \o w)[k] = u[k]
           /\ \A k \in 1..Len(w) : (u \o w)[Len(u) + k] = w[k]
  OBVIOUS

\* The data of the call at work, and how much is left of them.
LEMMA GhashData ==
    ASSUME GhashInv
    PROVE  /\ gCall \in DOMAIN gCalls <=> gCall \in 1..Len(gCalls)
           /\ gCall \in 1..Len(gCalls) =>
                /\ gCalls[gCall] \in Seq(Byte) /\ HashLen = Len(gCalls[gCall])
                /\ Ghash!Remaining = HashLen - gXpos
           /\ ~(gCall \in 1..Len(gCalls)) => Ghash!Remaining = -1
           /\ HashLen \in Nat /\ gXpos \in Nat /\ gXpos <= HashLen
<1>1. gCalls \in Seq(Seq(Byte)) /\ gCall \in 1..(Len(gCalls) + 1)
  BY DEF GhashInv, GhashTypes
<1>2. gCall \in DOMAIN gCalls <=> gCall \in 1..Len(gCalls)
  BY <1>1
<1>3. ASSUME gCall \in 1..Len(gCalls)
      PROVE  /\ gCalls[gCall] \in Seq(Byte) /\ HashLen = Len(gCalls[gCall])
             /\ Ghash!Remaining = HashLen - gXpos
  BY <1>1, <1>2, <1>3 DEF HashLen, Ghash!Remaining, Ghash!Data
<1>4. ASSUME ~(gCall \in 1..Len(gCalls)) PROVE Ghash!Remaining = -1
  BY <1>2, <1>4 DEF Ghash!Remaining
<1>5. HashLen \in Nat
  <2>1. CASE gCall \in 1..Len(gCalls)
    BY <1>3, <2>1
  <2>2. CASE ~(gCall \in 1..Len(gCalls))
    BY <1>1, <2>2 DEF HashLen
  <2> QED BY <2>1, <2>2
<1>6. gXpos \in Nat /\ gXpos <= HashLen
  BY <1>5 DEF GhashInv, GhashPlace
<1> QED BY <1>2, <1>3, <1>4, <1>5, <1>6

\* It is taken from the data whole,
LEMMA GhashFullStep ==
    ASSUME GhashInv, Ghash!FullBlock PROVE GhashInv'
<1>1. gPc = "loop" /\ Ghash!Remaining >= 16 /\ gXpos' = gXpos + 16
  BY DEF Ghash!FullBlock, Ghash!Block
<1>2. gCall \in 1..Len(gCalls) /\ gXpos + 16 <= HashLen
  BY <1>1, GhashData
<1>3. gXpos = 16 * Taken(gXpos)
  BY <1>2, GhashData DEF GhashInv, GhashPlace
<1> DEFINE x == gCalls[gCall]
           o == [p \in 0..15 |-> Ghash!Data[gXpos + p + 1]]
           b == FilledBlock(x, gXpos)
<1>4. o = FilledBytes(x, gXpos)
  <2>1. Ghash!Data = x /\ Len(x) = HashLen
    BY <1>2, GhashData DEF Ghash!Data
  <2>2. \A p \in 0..15 : gXpos + p < Len(x) /\ gXpos + p + 1 = (gXpos + p) + 1
    BY <1>2, <2>1, GhashData
  <2> HIDE DEF x
  <2>3. o = [p \in 0..15 |-> x[(gXpos + p) + 1]]
    BY <2>1, <2>2
  <2>4. FilledBytes(x, gXpos) = [p \in 0..15 |-> x[(gXpos + p) + 1]]
    BY <2>2 DEF FilledBytes
  <2> HIDE DEF o
  <2> QED BY <2>3, <2>4
<1>5. Ghash!Absorb(Ghash!BlockOf(o))
  BY DEF Ghash!FullBlock
<1>6. Ghash!Absorb(b)
  <2> HIDE DEF o
  <2> QED BY <1>4, <1>5 DEF FilledBlock
<1> HIDE DEF b
<1>7. /\ gHashed' = Append(gHashed, b)
      /\ gY' = Ghash!xor_block(gY, b) /\ gMx' = gY' /\ gZ' = Ghash!ZeroBlock /\ gV' = gH
      /\ gBit' = 0 /\ gPc' = "mult"
      /\ UNCHANGED <<gH, gCalls, gCall>>
  BY <1>6 DEF Ghash!Absorb
<1>8. BlockTaken(16)
  <2>1. 16 \in 1..16
    OBVIOUS
  <2> QED BY <1>1, <1>2, <1>3, <1>7, <2>1 DEF BlockTaken, b
<1> QED BY <1>1, <1>8, BlockJoins

\* or, if it is the last, filled up with zeros.
LEMMA GhashLastStep ==
    ASSUME GhashInv, Ghash!LastBlock PROVE GhashInv'
<1> DEFINE d == Ghash!Remaining
           x == gCalls[gCall]
           o == [p \in 0..15 |-> IF p < d THEN Ghash!Data[gXpos + p + 1] ELSE 0]
           b == FilledBlock(x, gXpos)
<1>1. gPc = "loop" /\ d \in 1..15 /\ gXpos' = gXpos + d
  <2>1. Ghash!Block = 16
    BY DEF Ghash!Block
  <2> QED BY <2>1 DEF Ghash!LastBlock
<1>2. gCall \in 1..Len(gCalls) /\ gXpos + d = HashLen
  BY <1>1, GhashData
<1>3. gXpos = 16 * Taken(gXpos)
  BY <1>1, <1>2, GhashData DEF GhashInv, GhashPlace
<1>5. Ghash!Absorb(Ghash!BlockOf(o))
  BY DEF Ghash!LastBlock
<1> HIDE DEF d
<1>4. o = FilledBytes(x, gXpos)
  <2>1. Ghash!Data = x /\ Len(x) = HashLen
    BY <1>2, GhashData DEF Ghash!Data
  <2>2. \A p \in 0..15 : (gXpos + p < Len(x) <=> p < d) /\ gXpos + p + 1 = (gXpos + p) + 1
    BY SMTT(40), <1>1, <1>2, <2>1, GhashData
  <2> HIDE DEF x
  <2>3. o = [p \in 0..15 |-> IF p < d THEN x[(gXpos + p) + 1] ELSE 0]
    BY <2>1, <2>2
  <2>4. FilledBytes(x, gXpos) = [p \in 0..15 |-> IF p < d THEN x[(gXpos + p) + 1] ELSE 0]
    BY <2>2 DEF FilledBytes
  <2> HIDE DEF o
  <2> QED BY <2>3, <2>4
<1>6. Ghash!Absorb(b)
  <2> HIDE DEF o
  <2> QED BY <1>4, <1>5 DEF FilledBlock
<1> HIDE DEF b
<1>7. /\ gHashed' = Append(gHashed, b)
      /\ gY' = Ghash!xor_block(gY, b) /\ gMx' = gY' /\ gZ' = Ghash!ZeroBlock /\ gV' = gH
      /\ gBit' = 0 /\ gPc' = "mult"
      /\ UNCHANGED <<gH, gCalls, gCall>>
  BY <1>6 DEF Ghash!Absorb
<1>8. BlockTaken(d)
  <2>1. d \in 1..16 /\ gXpos + d <= HashLen
    BY <1>1, <1>2, GhashData
  <2> QED BY <1>1, <1>2, <1>3, <1>7, <2>1 DEF BlockTaken, b
<1> QED BY <1>1, <1>8, BlockJoins

\* The next call goes on with what the calls before have left.
LEMMA GhashReturnStep ==
    ASSUME GhashInv, Ghash!Return PROVE GhashInv'
<1>1. /\ gPc = "loop" /\ Ghash!Remaining = 0 /\ gCall' = gCall + 1 /\ gXpos' = 0
      /\ gPc' = gPc /\ gH' = gH /\ gCalls' = gCalls /\ gY' = gY /\ gBit' = gBit
      /\ gMx' = gMx /\ gZ' = gZ /\ gV' = gV /\ gHashed' = gHashed
  BY DEF Ghash!Return
<1>2. gCall \in 1..Len(gCalls) /\ gXpos = HashLen
  BY <1>1, GhashData
<1>3. gCalls \in Seq(Seq(Byte)) /\ gHashed \in Seq(HashBlocks)
  BY DEF GhashInv, GhashTypes
<1>4. GhashTypes'
  <2>1. gCall' \in 1..(Len(gCalls) + 1)
    BY <1>1, <1>2, <1>3
  <2> QED BY <1>1, <2>1 DEF GhashInv, GhashTypes
<1>5. GhashPlace'
  <2>1. HashLen' \in Nat
    <3>1. gCall' <= Len(gCalls) => gCalls[gCall'] \in Seq(Byte)
      BY <1>1, <1>2, <1>3
    <3> QED BY <1>1, <3>1 DEF HashLen
  <2>2. Taken(gXpos)' = 0
    BY <1>1, TakenOne
  <2> QED BY <1>1, <2>1, <2>2 DEF GhashPlace
<1>6. GhashBlocks'
  <2> DEFINE U == UptoOf(gCalls)[gCall - 1]
             N == UptoOf(gCalls)[gCall]
             Q == Ghash!Padded(gCalls[gCall])
             c == Taken(gXpos)
             m == Len(U)
  <2>1. U \in Seq(HashBlocks) /\ N \in Seq(HashBlocks) /\ N = U \o Q
    <3>1. gCall - 1 \in 0..Len(gCalls) /\ gCall \in 0..Len(gCalls)
      BY <1>2, <1>3
    <3> QED BY <1>2, <1>3, <3>1, BlocksUpto
  <2>2. Q \in Seq(HashBlocks) /\ Len(Q) = c /\ c \in Nat
        /\ \A k \in 1..c : Q[k] = FilledBlock(gCalls[gCall], 16 * (k - 1))
    <3> DEFINE x == gCalls[gCall]
    <3>1. x \in Seq(Byte) /\ Len(x) = gXpos
      BY <1>2, GhashData
    <3> HIDE DEF x
    <3>2. /\ Ghash!Padded(x) \in Seq(HashBlocks)
          /\ Len(Ghash!Padded(x)) = Taken(Len(x)) /\ Taken(Len(x)) \in Nat
          /\ \A k \in 1..Taken(Len(x)) : Ghash!Padded(x)[k] = FilledBlock(x, 16 * (k - 1))
      BY <3>1, PaddedIs
    <3> QED BY <3>1, <3>2 DEF x
  <2>3. /\ Len(gHashed) = m + c
        /\ \A k \in 1..m : gHashed[k] = U[k]
        /\ \A k \in 1..c : gHashed[m + k] = FilledBlock(gCalls[gCall], 16 * (k - 1))
    BY DEF GhashInv, GhashBlocks
  <2> HIDE DEF U, N, Q, c
  <2>4. Len(N) = m + c /\ m \in Nat /\ (\A k \in 1..m : N[k] = U[k])
        /\ \A k \in 1..c : N[m + k] = Q[k]
    <3>1. m \in Nat
      BY <2>1
    <3>2. /\ Len(N) = Len(U) + Len(Q)
          /\ \A k \in 1..Len(U) : N[k] = U[k]
          /\ \A k \in 1..Len(Q) : N[Len(U) + k] = Q[k]
      <4>1. U \in Seq(HashBlocks) /\ Q \in Seq(HashBlocks)
        BY <2>1, <2>2
      <4>2. /\ Len(U \o Q) = Len(U) + Len(Q)
            /\ \A k \in 1..Len(U) : (U \o Q)[k] = U[k]
            /\ \A k \in 1..Len(Q) : (U \o Q)[Len(U) + k] = Q[k]
        BY <4>1, BehindIs
      <4>3. N = U \o Q
        BY <2>1
      <4> QED BY <4>2, <4>3, Zenon
    <3> QED BY <2>2, <3>1, <3>2
  <2>5. \A k \in 1..Len(N) : gHashed[k] = N[k]
    <3>1. ASSUME NEW k \in 1..(m + c) PROVE gHashed[k] = N[k]
      <4>1. CASE k <= m
        BY <2>2, <2>3, <2>4, <4>1
      <4>2. CASE ~(k <= m)
        <5> DEFINE n == k - m
        <5>1. n \in 1..c /\ k = m + n
          BY <2>2, <2>4, <4>2
        <5> HIDE DEF n
        <5> QED BY <2>2, <2>3, <2>4, <5>1
      <4> QED BY <4>1, <4>2
    <3> QED BY <2>4, <3>1
  <2>6. UptoOf(gCalls)[gCall - 1]' = N
    <3>1. gCall' - 1 = gCall
      BY <1>1, <1>2
    <3> QED BY <1>1, <3>1 DEF N
  <2>7. Taken(gXpos)' = 0
    BY <1>1, TakenOne
  <2>8. Len(gHashed') = Len(N) + 0
    BY <1>1, <2>2, <2>3, <2>4
  <2> QED BY <1>1, <2>5, <2>6, <2>7, <2>8 DEF GhashBlocks
<1>7. GhashProduct'
  BY <1>1 DEF GhashProduct
<1>8. GhashSum'
  BY <1>1 DEF GhashSum, GhashInv
<1> QED BY <1>4, <1>5, <1>6, <1>7, <1>8 DEF GhashInv

-----------------------------------------------------------------------------
\* Shifting by one more is multiplying by X once more.
LEMMA ShiftOneMore ==
    ASSUME NEW a \in Polys, NEW k \in 0..127
    PROVE  Ghash!Reduced(Ghash!Shifted(a, k + 1)) = MulX(Ghash!Reduced(Ghash!Shifted(a, k)))
<1> DEFINE sh == Ghash!Shifted(a, k)
           t == Ghash!Shifted(sh, 1)
           w == Ghash!Shifted(a, k + 1)
<1>1. a \subseteq 0..127 /\ 127 \in Nat /\ k \in Nat /\ 1 \in Nat /\ k + 1 \in Nat
  BY DEF Polys
<1>2. sh \subseteq 0..254
  <2>1. sh \subseteq k..(127 + k)
    BY <1>1, ShiftedInside
  <2> HIDE DEF sh
  <2> QED BY <2>1
<1>3. t = w
  <2>1. \A x \in t : x \in w
    <3>1. \A x \in t : \E e \in a : x = (e + k) + 1
      BY DEF Ghash!Shifted
    <3>2. \A e \in a : (e + k) + 1 = e + (k + 1)
      BY <1>1
    <3> QED BY <3>1, <3>2 DEF Ghash!Shifted
  <2>2. \A x \in w : x \in t
    <3>1. \A x \in w : \E e \in a : x = e + (k + 1)
      BY DEF Ghash!Shifted
    <3>2. \A e \in a : (e + k) + 1 = e + (k + 1)
      BY <1>1
    <3>3. \A e \in a : e + k \in sh
      BY DEF Ghash!Shifted
    <3>4. \A e \in sh : e + 1 \in t
      BY DEF Ghash!Shifted
    <3> HIDE DEF sh, t, w
    <3> QED BY <3>1, <3>2, <3>3, <3>4
  <2> QED BY <2>1, <2>2
<1>4. Ghash!Reduced(t) = MulX(Ghash!Reduced(sh))
  <2> HIDE DEF sh
  <2> QED BY <1>2, ReducedShift
<1> QED BY <1>3, <1>4

\* The terms of p below a power.
Below(p, k) == {n \in p : n < k}

\* One term more.
LEMMA BelowNext ==
    ASSUME NEW p \in Polys, NEW k \in 0..127
    PROVE  /\ Below(p, k) \in Polys
           /\ Below(p, k + 1) = IF k \in p THEN Ghash!Sum2(Below(p, k), {k}) ELSE Below(p, k)
<1>1. \A n \in p : n \in 0..127
  BY DEF Polys
<1>2. \A n \in p : (n < k + 1 <=> n < k \/ n = k)
  BY <1>1
<1>3. \A n : (n \in Below(p, k + 1) <=> n \in Below(p, k) \/ (n = k /\ k \in p))
  BY <1>2 DEF Below
<1>4. ~(k \in Below(p, k))
  BY DEF Below
<1>5. Below(p, k) \in Polys
  BY <1>1 DEF Below, Polys
<1> DEFINE u == Below(p, k)
           w == Below(p, k + 1)
           one == {k}
<1> HIDE DEF u, w
<1>6. CASE k \in p
  <2>1. \A n : (n \in w <=> ~(n \in u <=> n \in one))
    BY <1>3, <1>4, <1>6 DEF u, w
  <2> HIDE DEF one
  <2>2. w = Ghash!Sum2(u, one)
    BY <2>1, SumHas
  <2> QED BY <1>5, <1>6, <2>2 DEF u, w, one
<1>7. CASE ~(k \in p)
  <2>1. u = w
    BY <1>3, <1>7 DEF u, w
  <2> QED BY <1>5, <1>7, <2>1 DEF u, w
<1> QED BY <1>6, <1>7

\* A bit of x: its power of X times H is added if it is set,
LEMMA GhashBitStep ==
    ASSUME GhashInv, Ghash!MultiplyBit PROVE GhashInv'
<1> DEFINE h == Poly(gH)
           p == Poly(gMx)
           low(k) == Below(p, k)
<1>1. /\ gPc = "mult" /\ gBit < 128 /\ gBit' = gBit + 1 /\ gV' = NextV(gV)
      /\ gZ' = IF Ghash!BitOf(gMx, gBit) = 1 THEN Ghash!xor_block(gZ, gV) ELSE gZ
      /\ gPc' = gPc /\ gH' = gH /\ gCalls' = gCalls /\ gCall' = gCall /\ gY' = gY
      /\ gXpos' = gXpos /\ gMx' = gMx /\ gHashed' = gHashed
  <2>1. 8 * Ghash!Block = 128
    BY DEF Ghash!Block
  <2> QED BY <2>1 DEF Ghash!MultiplyBit, NextV
<1>2. gBit \in 0..127 /\ gZ \in HashBlocks /\ gV \in HashBlocks /\ gMx \in HashBlocks
  BY <1>1 DEF GhashInv, GhashTypes
<1>3. h \in Polys /\ p \in Polys
  BY PolynomialType DEF Poly
<1>4. /\ Poly(gV) = Ghash!Reduced(Ghash!Shifted(h, gBit))
      /\ Poly(gZ) = Ghash!Times(low(gBit), h)
      /\ Ghash!Hash(gHashed, h) = Ghash!Times(p, h)
  BY <1>1 DEF GhashInv, GhashProduct, Below
<1>5. gBit \in p <=> Ghash!BitOf(gMx, gBit) = 1
  BY <1>2 DEF Poly, Ghash!PolynomialOf
<1>6. gZ' \in HashBlocks /\ gV' \in HashBlocks
  <2>1. Ghash!xor_block(gZ, gV) \in HashBlocks
    BY <1>2, AddedTerms
  <2> QED BY <1>1, <1>2, <2>1, NextVIs
<1>7. Poly(gV') = Ghash!Reduced(Ghash!Shifted(h, gBit + 1))
  <2>1. Poly(gV') = MulX(Poly(gV))
    BY <1>1, <1>2, NextVIs DEF Poly
  <2> HIDE DEF h
  <2> QED BY <1>2, <1>3, <1>4, <2>1, ShiftOneMore
<1>8. Poly(gZ') = Ghash!Times(low(gBit + 1), h)
  <2> HIDE DEF h
  <2> HIDE DEF p
  <2>1. CASE gBit \in p
    <3>1. Poly(gZ') = Ghash!Sum2(Poly(gZ), Poly(gV))
      BY <1>1, <1>2, <1>5, <2>1, AddedTerms DEF Poly
    <3>2. Poly(gV) = Ghash!Times({gBit}, h)
      BY <1>2, <1>3, <1>4, TimesPower
    <3> DEFINE one == {gBit}
               under == low(gBit)
               to == low(gBit + 1)
    <3>3. to = Ghash!Sum2(under, one) /\ under \in Polys
      BY <1>2, <1>3, <2>1, BelowNext
    <3>4. under \in Polys /\ one \in Polys
      BY <1>2, <3>3 DEF Polys
    <3> HIDE DEF under, to, one
    <3>5. Ghash!Times(Ghash!Sum2(under, one), h)
            = Ghash!Sum2(Ghash!Times(under, h), Ghash!Times(one, h))
      BY <3>4, TimesLinear
    <3> QED BY <1>4, <3>1, <3>2, <3>3, <3>5 DEF under, to, one
  <2>2. CASE ~(gBit \in p)
    <3>1. low(gBit) = low(gBit + 1)
      BY <1>2, <1>3, <2>2, BelowNext
    <3>2. gZ' = gZ
      BY <1>1, <1>5, <2>2
    <3> QED BY <1>4, <3>1, <3>2
  <2> QED BY <2>1, <2>2
<1>9. GhashTypes'
  <2>1. gBit' \in 0..128
    BY <1>1, <1>2
  <2> QED BY <1>1, <1>6, <2>1 DEF GhashInv, GhashTypes
<1>10. GhashPlace' /\ GhashBlocks'
  <2>1. GhashPlace /\ GhashBlocks /\ HashLen' = HashLen
    BY <1>1 DEF GhashInv, HashLen
  <2> QED BY <1>1, <2>1 DEF GhashPlace, GhashBlocks
<1>11. GhashProduct'
  <2>1. Poly(gH)' = h /\ Poly(gMx)' = p /\ Poly(gV)' = Poly(gV') /\ Poly(gZ)' = Poly(gZ')
    BY <1>1
  <2> HIDE DEF h, p
  <2> QED BY <1>1, <1>4, <1>7, <1>8, <2>1 DEF GhashProduct, Below
<1>12. GhashSum'
  BY <1>1 DEF GhashSum
<1> QED BY <1>9, <1>10, <1>11, <1>12 DEF GhashInv

\* and after 128 the product is complete.
LEMMA GhashMultipliedStep ==
    ASSUME GhashInv, Ghash!Multiplied PROVE GhashInv'
<1>1. /\ gPc = "mult" /\ gBit = 128 /\ gY' = gZ /\ gPc' = "loop"
      /\ gH' = gH /\ gCalls' = gCalls /\ gCall' = gCall /\ gXpos' = gXpos /\ gBit' = gBit
      /\ gMx' = gMx /\ gZ' = gZ /\ gV' = gV /\ gHashed' = gHashed
  <2>1. 8 * Ghash!Block = 128
    BY DEF Ghash!Block
  <2> QED BY <2>1 DEF Ghash!Multiplied
<1>2. Poly(gZ) = Ghash!Hash(gHashed, Poly(gH))
  <2>1. {n \in Poly(gMx) : n < gBit} = Poly(gMx)
    <3>1. Poly(gMx) \subseteq 0..127
      BY PolynomialType DEF Poly, Polys
    <3> QED BY <1>1, <3>1
  <2> QED BY <1>1, <2>1 DEF GhashInv, GhashProduct
<1>3. GhashTypes'
  BY <1>1 DEF GhashInv, GhashTypes
<1>4. GhashPlace' /\ GhashBlocks'
  <2>1. GhashPlace /\ GhashBlocks /\ HashLen' = HashLen
    BY <1>1 DEF GhashInv, HashLen
  <2> QED BY <1>1, <2>1 DEF GhashPlace, GhashBlocks
<1>5. GhashProduct'
  BY <1>1 DEF GhashProduct
<1>6. GhashSum'
  BY <1>1, <1>2 DEF GhashSum
<1> QED BY <1>3, <1>4, <1>5, <1>6 DEF GhashInv

\* Every step keeps it.
LEMMA GhashStays ==
    ASSUME GhashInv, [Ghash!Next]_(Ghash!vars) PROVE GhashInv'
<1>1. CASE Ghash!Next
  BY <1>1, GhashFullStep, GhashLastStep, GhashReturnStep, GhashBitStep, GhashMultipliedStep
     DEF Ghash!Next
<1>2. CASE UNCHANGED Ghash!vars
  <2>1. /\ gPc' = gPc /\ gH' = gH /\ gCalls' = gCalls /\ gCall' = gCall /\ gXpos' = gXpos
        /\ gY' = gY /\ gBit' = gBit /\ gMx' = gMx /\ gZ' = gZ /\ gV' = gV
        /\ gHashed' = gHashed
    BY <1>2 DEF Ghash!vars
  <2>2. GhashTypes'
    BY <2>1 DEF GhashInv, GhashTypes
  <2>3. GhashPlace' /\ GhashBlocks'
    <3>1. GhashPlace /\ GhashBlocks /\ HashLen' = HashLen
      BY <2>1 DEF GhashInv, HashLen
    <3> QED BY <2>1, <3>1 DEF GhashPlace, GhashBlocks
  <2>4. GhashProduct'
    BY <2>1 DEF GhashInv, GhashProduct
  <2>5. GhashSum'
    BY <2>1 DEF GhashInv, GhashSum
  <2> QED BY <2>2, <2>3, <2>4, <2>5 DEF GhashInv
<1> QED BY <1>1, <1>2

\* So what the run asks of GHASH holds.
LEMMA GhashSaid ==
    ASSUME GhashInv
    PROVE  Ghash!ProductSoFar /\ Ghash!GhashIsPolynomial /\ Ghash!PaddedApart /\ Ghash!TypeOK
<1>1. Ghash!ProductSoFar
  BY DEF GhashInv, GhashProduct, Ghash!ProductSoFar, Poly
<1>2. Ghash!GhashIsPolynomial
  BY DEF GhashInv, GhashSum, Ghash!GhashIsPolynomial, Poly
<1>3. Ghash!PaddedApart
  <2>1. SUFFICES ASSUME gXpos = 0 PROVE gHashed = Ghash!PaddedUpto[gCall - 1]
    BY DEF Ghash!PaddedApart
  <2> DEFINE U == UptoOf(gCalls)[gCall - 1]
  <2>2. gCalls \in Seq(Seq(Byte)) /\ gHashed \in Seq(HashBlocks) /\ gCall - 1 \in 0..Len(gCalls)
    BY DEF GhashInv, GhashTypes
  <2>3. U \in Seq(HashBlocks)
    BY <2>2, BlocksUpto
  <2>4. Len(gHashed) = Len(U) + 0 /\ \A k \in 1..Len(U) : gHashed[k] = U[k]
    BY <2>1, TakenOne DEF GhashInv, GhashBlocks
  <2>5. Ghash!PaddedUpto[gCall - 1] = U
    BY PaddedUptoIs
  <2> HIDE DEF U
  <2>6. gHashed = U
    BY <2>2, <2>3, <2>4
  <2> QED BY <2>5, <2>6
<1>4. Ghash!TypeOK
  <2>1. gCall \in DOMAIN gCalls => gXpos \in 0..Len(Ghash!Data)
    <3>1. GhashPlace
      BY DEF GhashInv
    <3> QED BY <3>1, GhashData DEF GhashPlace, Ghash!Data
  <2>2. \A b \in {gY, gMx, gZ, gV} : b \in Ghash!Blocks
    BY GhashBytes DEF GhashInv, GhashTypes, HashBlocks
  <2> QED BY <2>1, <2>2 DEF GhashInv, GhashTypes, Ghash!TypeOK
<1> QED BY <1>1, <1>2, <1>3, <1>4

-----------------------------------------------------------------------------
\* Types of the parts.  A context of CBC is live while a function runs.
CbcContext == bCtx = IF bPc \in {"idle", "init"} THEN 0 ELSE 1

\* Which every step keeps.
LEMMA CbcContextStays ==
    ASSUME CbcInv, CbcContext, [Cbc!Next]_(Cbc!vars) PROVE CbcContext'
<1>1. bPc \in {"idle", "init", "encrypt", "decrypt", "single"}
      /\ bOp \in {"none", "encrypt", "decrypt", "single"} /\ (bOp = "none" => bPc = "idle")
  BY DEF CbcInv, CbcTypes, CbcControl
<1>2. CASE \E f \in {"encrypt", "decrypt", "single"} : Cbc!Call(f)
  BY <1>2 DEF Cbc!Call, CbcContext
<1>3. CASE Cbc!InitFails
  BY <1>3 DEF Cbc!InitFails, CbcContext
<1>4. CASE Cbc!InitSucceeds
  BY <1>1, <1>4 DEF Cbc!InitSucceeds, CbcContext
<1>5. CASE Cbc!EncryptBlock \/ Cbc!DecryptBlock \/ Cbc!SingleBlock
  BY <1>5 DEF Cbc!EncryptBlock, Cbc!DecryptBlock, Cbc!SingleBlock, CbcContext
<1>6. CASE Cbc!Return
  BY <1>6 DEF Cbc!Return, CbcContext
<1>7. CASE UNCHANGED Cbc!vars
  BY <1>7 DEF Cbc!vars, CbcContext
<1> QED BY <1>2, <1>3, <1>4, <1>5, <1>6, <1>7 DEF Cbc!Next

\* So its variables have their types.
LEMMA CbcTyped ==
    ASSUME CbcInv, CbcContext PROVE Cbc!TypeOK
<1>1. bData \in Seq(Blocks) /\ Len(bGiven) = Len(bData) /\ bI \in 0..Len(bData)
      /\ bPc \in {"idle", "init", "encrypt", "decrypt", "single"}
  BY DEF CbcInv, CbcTypes
<1>2. \A p \in DOMAIN bData : bData[p] \in Blocks
  BY <1>1
<1> QED BY <1>1, <1>2 DEF Cbc!TypeOK, CbcContext, Blocks

\* Key wrapping: what a call has left behind.
WrapRest ==
    /\ wPc = "idle" => wCipher = <<>> \/ wCipher \in Wrapped(Count)
    /\ wPc \in {"idle", "wrap_init", "wrap"} =>
         (wPlain = <<>> \/ (wPlain \in Seq(Half) /\ Len(wPlain) = Count)) /\ wA \in Half
    /\ wCtx = IF wPc \in {"wrap", "unwrap"} THEN 1 ELSE 0
    /\ ~(wPc \in {"wrap", "unwrap"}) => wJ \in -1..6 /\ wI \in 0..Count

\* While a call works the buffer has its shape,
LEMMA WrapBuffer ==
    ASSUME WrapInputs, WrapInv, wPc # "idle" PROVE wCipher \in Wrapped(Count)
<1>1. wKey \in SecretKeys
      /\ wPc \in {"idle", "wrap_init", "wrap", "unwrap_init", "unwrap", "unwrapped"}
  BY DEF WrapInv, WrapTypes
<1>2. Count \in Nat \ {0} /\ Len(wKey) = Count /\ WrapStart \in Wrapped(Count)
      /\ 6 * Count \in Nat
  BY <1>1, KeyIs
<1>3. CASE wPc = "wrap_init"
  BY <1>2, <1>3 DEF WrapInv, WrapWay
<1>4. CASE wPc = "wrap"
  <2> DEFINE hi == (Count * wJ) + (wI - 1)
  <2>1. Reaches(wKey, 0, hi, WrapStart, wCipher) /\ wJ \in 0..6 /\ wI \in 1..Count
    BY <1>4 DEF WrapInv, WrapWay, WrapTypes
  <2>2. hi \in Nat /\ 0 <= hi /\ 0 \in Nat
    <3>1. Count * wJ \in Nat
      BY <1>2, <2>1
    <3> QED BY <1>2, <2>1, <3>1
  <2> HIDE DEF hi
  <2> QED BY <1>2, <2>1, <2>2, ReachesTypes
<1>5. CASE wPc \in {"unwrap_init", "unwrap", "unwrapped"}
  <2>1. wA \in Half /\ wPlain \in Seq(Half) /\ Len(wPlain) = Count
    BY <1>5 DEF WrapInv, WrapTypes
  <2>2. CASE wPc = "unwrap_init"
    <3>1. Unwrapping \in Wrapped(Count)
      BY <2>1, WholeIs DEF Unwrapping, Wrapped
    <3> QED BY <2>2, <3>1 DEF WrapInv, WrapWay
  <2>3. CASE wPc = "unwrapped"
    <3>1. Reaches(wKey, 0, 6 * Count, Unwrapping, wCipher) /\ 0 \in Nat /\ 0 <= 6 * Count
      BY <1>2, <2>3 DEF WrapInv, WrapWay
    <3> QED BY <1>2, <3>1, ReachesTypes
  <2>4. CASE wPc = "unwrap"
    <3> DEFINE lo == (Count * wJ) + wI
               hi == 6 * Count
    <3>1. Reaches(wKey, lo, hi, Unwrapping, wCipher) /\ wJ \in -1..5 /\ wI \in 1..Count
          /\ (wJ = -1 => wI = Count)
      BY <2>4 DEF WrapInv, WrapWay, WrapTypes
    <3>2. lo \in Nat /\ hi \in Nat /\ lo <= hi
      <4>1. CASE wJ = -1
        <5>1. Count * wJ + wI = 0
          BY <1>2, <3>1, <4>1
        <5> QED BY <1>2, <5>1
      <4>2. CASE wJ \in 0..5
        <5>1. (Count * wJ) + wI \in 1..(6 * Count)
          BY <1>2, <3>1, <4>2, PlaceOfCounter
        <5> QED BY <1>2, <5>1
      <4> QED BY <3>1, <4>1, <4>2
    <3> HIDE DEF lo, hi
    <3> QED BY <1>2, <3>1, <3>2, ReachesTypes
  <2> QED BY <1>5, <2>2, <2>3, <2>4
<1> QED BY <1>1, <1>3, <1>4, <1>5

\* and what is left behind has it before the first call
LEMMA WrapRestStarts ==
    ASSUME WrapInputs, Wrap!Init PROVE WrapRest
<1>1. wKey \in SecretKeys
  BY DEF Wrap!Init
<1>2. Count \in Nat \ {0} /\ Wrap!Iv \in Half
  BY <1>1, KeyIs DEF WrapInputs
<1> QED BY <1>2 DEF Wrap!Init, Wrap!Nothing, WrapRest

\* and after every step.
LEMMA WrapRestStays ==
    ASSUME WrapInputs, WrapInv, WrapRest, [Wrap!Next]_(Wrap!vars) PROVE WrapRest'
<1>1. wKey \in SecretKeys
      /\ wPc \in {"idle", "wrap_init", "wrap", "unwrap_init", "unwrap", "unwrapped"}
      /\ (wPc = "wrap" => wJ \in 0..6 /\ wI \in 1..Count)
      /\ (wPc = "unwrap" => wJ \in -1..5 /\ wI \in 1..Count)
      /\ (wPc \in {"unwrap_init", "unwrap", "unwrapped"} =>
            wA \in Half /\ wPlain \in Seq(Half) /\ Len(wPlain) = Count)
  BY DEF WrapInv, WrapTypes
<1>2. Count \in Nat \ {0}
  BY <1>1, KeyIs
<1>3. wPc # "idle" => wCipher \in Wrapped(Count)
  BY WrapBuffer
<1>4. CASE Wrap!Wrap
  <2>1. Count' = Count
    BY <1>4 DEF Wrap!Wrap, Count
  <2> QED BY <1>4, <2>1 DEF Wrap!Wrap, WrapRest
<1>5. CASE Wrap!Unwrap
  <2>1. Count' = Count
    BY <1>5 DEF Wrap!Unwrap, Count
  <2> QED BY <1>5, <2>1 DEF Wrap!Unwrap, WrapRest
<1>6. CASE Wrap!InitFails
  <2>1. Count' = Count
    BY <1>6 DEF Wrap!InitFails, Count
  <2> QED BY <1>1, <1>3, <1>6, <2>1 DEF Wrap!InitFails, WrapRest
<1>7. CASE Wrap!WrapInit
  <2>1. Count' = Count
    BY <1>7 DEF Wrap!WrapInit, Count
  <2> QED BY <1>7, <2>1 DEF Wrap!WrapInit, WrapRest
<1>8. CASE Wrap!WrapStep
  <2>1. /\ Count' = Count /\ wPc = "wrap" /\ wPc' = wPc /\ wPlain' = wPlain /\ wA' = wA
        /\ wCtx' = wCtx
    BY <1>8 DEF Wrap!WrapStep, Count
  <2> QED BY <2>1 DEF WrapRest
<1>9. CASE Wrap!WrapReturn
  <2>1. /\ Count' = Count /\ wPc = "wrap" /\ wPc' = "idle" /\ wPlain' = wPlain /\ wA' = wA
        /\ wCtx' = wCtx - 1 /\ wCipher' = wCipher /\ wJ' = wJ /\ wI' = wI
    BY <1>9 DEF Wrap!WrapReturn, Count
  <2>2. wJ \in -1..6 /\ wI \in 0..Count
    BY <1>1, <1>2, <2>1
  <2> QED BY <1>3, <2>1, <2>2 DEF WrapRest
<1>10. CASE Wrap!UnwrapInit
  <2>1. Count' = Count
    BY <1>10 DEF Wrap!UnwrapInit, Count
  <2> QED BY <1>10, <2>1 DEF Wrap!UnwrapInit, WrapRest
<1>11. CASE Wrap!UnwrapStep
  <2>1. wPc = "unwrap" /\ wPc' = wPc /\ wCtx' = wCtx
    BY <1>11 DEF Wrap!UnwrapStep
  <2> QED BY <2>1 DEF WrapRest
<1>12. CASE Wrap!UnwrapReturn
  <2>1. /\ Count' = Count /\ wPc = "unwrap" /\ wPc' = "unwrapped" /\ wCtx' = wCtx - 1
        /\ wJ' = wJ /\ wI' = wI
    BY <1>12 DEF Wrap!UnwrapReturn, Count
  <2>2. wJ \in -1..6 /\ wI \in 0..Count
    BY <1>1, <1>2, <2>1
  <2> QED BY <2>1, <2>2 DEF WrapRest
<1>13. CASE UNCHANGED Wrap!vars
  <2>1. /\ wKey' = wKey /\ wPc' = wPc /\ wPlain' = wPlain /\ wA' = wA /\ wCtx' = wCtx
        /\ wCipher' = wCipher /\ wJ' = wJ /\ wI' = wI
    BY <1>13 DEF Wrap!vars
  <2>2. Count' = Count
    BY <2>1 DEF Count
  <2> QED BY <2>1, <2>2 DEF WrapRest
<1> QED BY <1>4, <1>5, <1>6, <1>7, <1>8, <1>9, <1>10, <1>11, <1>12, <1>13 DEF Wrap!Next

\* So its variables have their types,
LEMMA WrapTyped ==
    ASSUME WrapInputs, WrapInv, WrapRest PROVE Wrap!TypeOK
<1>1. wKey \in SecretKeys
      /\ wPc \in {"idle", "wrap_init", "wrap", "unwrap_init", "unwrap", "unwrapped"}
      /\ (wPc = "wrap" => wJ \in 0..6 /\ wI \in 1..Count)
      /\ (wPc = "unwrap" => wJ \in -1..5 /\ wI \in 1..Count)
      /\ (wPc \in {"unwrap_init", "unwrap", "unwrapped"} =>
            wA \in Half /\ wPlain \in Seq(Half) /\ Len(wPlain) = Count)
  BY DEF WrapInv, WrapTypes
<1>2. Count \in Nat \ {0} /\ Wrap!n = Count
  BY <1>1, KeyIs
<1>3. wCipher = <<>> \/ wCipher \in [1..(Count + 1) -> Half]
  BY WrapBuffer DEF WrapRest, Wrapped
<1>4. (wPlain = <<>> \/ (wPlain \in Seq(Half) /\ Len(wPlain) = Count)) /\ wA \in Half
  BY <1>1 DEF WrapRest
<1>5. wPlain = <<>> \/ wPlain \in [1..Count -> Half]
  BY <1>4
<1>6. wJ \in -1..6 /\ wI \in 0..Count
  BY <1>1, <1>2 DEF WrapRest
<1> QED BY <1>1, <1>2, <1>3, <1>4, <1>5, <1>6 DEF Wrap!TypeOK, WrapRest, Wrap!Nothing

\* those of counter mode,
LEMMA CtrTyped ==
    ASSUME CtrInv PROVE Ctr!TypeOK
<1>1. CtrTypes /\ Ctr!Block = 16
  BY DEF CtrInv, Ctr!Block
<1>2. \A k \in 1..16 : cCounter[k] \in 0..(CounterVals - 1)
  BY <1>1 DEF CtrTypes, CtrBlocks, CtrBytes
<1> QED BY <1>1, <1>2 DEF CtrTypes, Ctr!TypeOK

\* of the byte order helpers
LEMMA BytesTyped ==
    ASSUME BytesInv PROVE Order!TypeOK
  BY DEF BytesInv, Order!TypeOK, OctetVals

\* and of the dumps.
LEMMA DumpTyped ==
    ASSUME DumpInv PROVE Dump!TypeOK
<1>1. DumpTypes
  BY DEF DumpInv
<1>2. ASSUME NEW k \in 1..Len(dOut)
      PROVE  /\ Dump!Range(dOut[k].hex) \subseteq DumpBytes \cup {Dump!Blank}
             /\ Dump!Range(dOut[k].text) \subseteq Printable \cup {Dump!Blank, Dump!Underscore}
  <2>1. dOut[k] \in DumpRows
    BY <1>1 DEF DumpTypes
  <2>2. dOut[k].hex \in Seq(DumpHex) /\ dOut[k].text \in Seq(DumpText)
    BY <2>1 DEF DumpRows
  <2>3. \A V : \A u \in Seq(V) : \A q \in DOMAIN u : u[q] \in V
    OBVIOUS
  <2>4. \A V : \A u \in Seq(V) : Dump!Range(u) \subseteq V
    BY <2>3 DEF Dump!Range
  <2> QED BY <2>2, <2>4 DEF DumpHex, DumpText
<1> QED BY <1>1, <1>2 DEF DumpTypes, Dump!TypeOK

-----------------------------------------------------------------------------
\* All of them as parts of the library: what holds of the part that is at work.
LibraryInv ==
    /\ part = "ctr" => CtrInv
    /\ part = "wrap" => WrapInv /\ WrapRest
    /\ part = "cbc" => CbcInv /\ CbcContext
    /\ part = "dump" => DumpInv
    /\ part = "bytes" => BytesInv
    /\ part = "omac" => OmacInv
    /\ part = "ghash" => GhashInv

\* All ask what the instance is assumed to give.
LEMMA LibraryInputs ==
    Ctr!Inputs /\ WrapInputs /\ CbcInputs /\ Order!Inputs /\ Dump!Inputs /\ Omac!Inputs
    /\ Ghash!Inputs
<1>1. Ctr!Inputs /\ Cbc!Inputs /\ Wrap!Inputs /\ Order!Inputs /\ Dump!Inputs
      /\ Omac!Inputs /\ Ghash!Inputs
  BY PartsAssumption
<1>2. WrapInputs
  BY <1>1, WrapInputsHold
<1>3. CbcInputs
  BY <1>1, CbcInputsHold
<1> QED BY <1>1, <1>2, <1>3

\* It holds before anything is called,
LEMMA LibraryStarts ==
    ASSUME AnyInit PROVE LibraryInv
<1>1. part = "wrap" => Wrap!Init
  BY DEF AnyInit
<1>2. part = "cbc" => Cbc!Init
  BY DEF AnyInit
<1>3. part = "ctr" => Ctr!Init
  BY DEF AnyInit
<1>4. part = "dump" => Dump!Init
  BY DEF AnyInit
<1>5. part = "bytes" => Order!Init
  BY DEF AnyInit
<1>6. part = "omac" => Omac!Init
  BY DEF AnyInit
<1>7. part = "ghash" => Ghash!Init
  BY DEF AnyInit
<1>8. part = "cbc" => CbcContext
  BY <1>2 DEF Cbc!Init, CbcContext
<1> QED BY <1>1, <1>2, <1>3, <1>4, <1>5, <1>6, <1>7, <1>8, WrapRestStarts, LibraryInputs,
           WrapStarts, CbcStarts, CtrStarts, DumpStarts, BytesStarts, OmacStarts, GhashStarts
           DEF LibraryInv

\* and after every step of either.
LEMMA LibraryStays ==
    ASSUME LibraryInv, [AnyNext]_anyVars PROVE LibraryInv'
<1>1. UNCHANGED part
  BY DEF AnyNext, anyVars
<1>2. part = "wrap" => [Wrap!Next]_(Wrap!vars)
  BY DEF AnyNext, anyVars, wrapVars, Wrap!vars
<1>3. part = "cbc" => [Cbc!Next]_(Cbc!vars)
  BY DEF AnyNext, anyVars, cbcVars, Cbc!vars
<1>4. part = "wrap" => WrapInv' /\ WrapRest'
  BY <1>2, LibraryInputs, WrapStays, WrapRestStays DEF LibraryInv
<1>5. part = "cbc" => CbcInv' /\ CbcContext'
  BY <1>3, LibraryInputs, CbcStays, CbcContextStays DEF LibraryInv
<1>6. part = "ctr" => [Ctr!Next]_(Ctr!vars)
  BY DEF AnyNext, anyVars, ctrVars, Ctr!vars
<1>7. part = "ctr" => CtrInv'
  BY <1>6, LibraryInputs, CtrStays DEF LibraryInv
<1>8. part = "dump" => [Dump!Next]_(Dump!vars)
  BY DEF AnyNext, anyVars, dumpVars, Dump!vars, Dump!settings
<1>9. part = "dump" => DumpInv'
  BY <1>8, LibraryInputs, DumpStays DEF LibraryInv
<1>10. part = "bytes" => [Order!Next]_(Order!vars)
  BY DEF AnyNext, anyVars, bytesVars, Order!vars
<1>11. part = "bytes" => BytesInv'
  BY <1>10, LibraryInputs, BytesStays DEF LibraryInv
<1>12. part = "omac" => [Omac!Next]_(Omac!vars)
  BY DEF AnyNext, anyVars, omacVars, Omac!vars
<1>13. part = "omac" => OmacInv'
  BY <1>12, LibraryInputs, OmacStays DEF LibraryInv
<1>14. part = "ghash" => [Ghash!Next]_(Ghash!vars)
  BY DEF AnyNext, anyVars, ghashVars, Ghash!vars
<1>15. part = "ghash" => GhashInv'
  BY <1>14, GhashStays DEF LibraryInv
<1> QED BY <1>1, <1>4, <1>5, <1>7, <1>9, <1>11, <1>13, <1>15 DEF LibraryInv

\* So it holds throughout.
LEMMA LibraryHolds == AnySpec => []LibraryInv
<1> QED BY LibraryStarts, LibraryStays, PTL DEF AnySpec

\* Every part's variables have their types: positions and counters stay inside their buffers, and
\* a context of a cipher is live exactly while a function works with it.
THEOREM TypesHold == AnySpec => []TypesOK
<1>1. ASSUME LibraryInv PROVE TypesOK
  <2>1. part = "ghash" => Ghash!TypeOK
    BY <1>1, GhashSaid DEF LibraryInv
  <2>2. part = "omac" => Omac!TypeOK
    BY <1>1, OmacTyped DEF LibraryInv
  <2>3. part = "ctr" => Ctr!TypeOK
    BY <1>1, CtrTyped DEF LibraryInv
  <2>4. part = "cbc" => Cbc!TypeOK
    BY <1>1, CbcTyped DEF LibraryInv
  <2>5. part = "wrap" => Wrap!TypeOK
    BY <1>1, LibraryInputs, WrapTyped DEF LibraryInv
  <2>6. part = "bytes" => Order!TypeOK
    BY <1>1, BytesTyped DEF LibraryInv
  <2>7. part = "dump" => Dump!TypeOK
    BY <1>1, DumpTyped DEF LibraryInv
  <2> QED BY <2>1, <2>2, <2>3, <2>4, <2>5, <2>6, <2>7 DEF TypesOK
<1>2. LibraryInv => TypesOK
  BY <1>1
<1> QED BY <1>2, LibraryHolds, PTL

\* A wrapped key is the one the definition gives (aes_wrap): for every permutation of blocks and
\* keys of every length whose counter fits into a byte.
THEOREM WrappingStandard == AnySpec => []WrapIsStandard
<1>1. LibraryInv => WrapIsStandard
  BY LibraryInputs, StandardSoFar DEF LibraryInv, WrapIsStandard
<1> QED BY <1>1, LibraryHolds, PTL

\* aes_unwrap answers 0 exactly when it was given the wrapping of the key it has found, changed
\* or not, and what aes_wrap made is unwrapped to the key, keys of any length: adding the counter
\* to one byte of A only cannot be told from the definition by unwrapping.
THEOREM UnwrappingInverse == AnySpec => []UnwrapAccepts
<1>1. LibraryInv => UnwrapAccepts
  BY LibraryInputs, AcceptedSoFar DEF LibraryInv, UnwrapAccepts
<1> QED BY <1>1, LibraryHolds, PTL

\* CBC in place (aes_128_cbc_encrypt, aes_128_cbc_decrypt): as far as a call has got, and when it
\* has returned or failed, the buffer holds CBC of what was handed over and behind it what was
\* handed over, for every permutation of blocks and data of every length.
THEOREM CbcInPlace == AnySpec => []CbcSoFar
<1>1. LibraryInv => CbcSoFar
  BY DEF LibraryInv, CbcInv, CbcSoFar
<1> QED BY <1>1, LibraryHolds, PTL

\* The MAC of omac1_aes_128_vector is OMAC1 of the elements one after the other: for every cipher,
\* subkey and data of every length cut into any number of elements, provided that no element is
\* empty before one that is not.
THEOREM MacStandard == AnySpec => []MacIsOmac
<1>1. LibraryInv => MacIsOmac
  BY DEF LibraryInv, OmacInv, MacIsOmac
<1> QED BY <1>1, LibraryHolds, PTL

\* gf_mult multiplies as polynomials are multiplied, after every bit; y is the polynomial in H of
\* the blocks hashed, H^(m - k + 1) times block k; and these are the data of each call filled up
\* with zeros on its own: for every H and any number of calls with data of every length.
THEOREM HashStandard == AnySpec => []GhashIsStandard
<1>1. LibraryInv => GhashIsStandard
  BY GhashSaid DEF LibraryInv, GhashIsStandard
<1> QED BY <1>1, LibraryHolds, PTL

\* Counter mode in place (aes_128_ctr_encrypt): a call that answers 0 has encrypted all of the
\* data, each block with the next number of sixteen bytes, wherever the carry of the bytes ends,
\* and one that answers -1 has touched nothing; for nonces and data of every value and length.
THEOREM CounterMode == AnySpec => []CtrAllOrNothing
<1>1. LibraryInv => CtrAllOrNothing
  BY DEF LibraryInv, CtrInv, CtrSoFar, CtrAllOrNothing, Ctr!AllOrNothing
<1> QED BY <1>1, LibraryHolds, PTL

\* What AES_PUT_ wrote is what AES_GET_ reads at the same place, the bytes the width has no room
\* for left out; reading in the other order is reading and bswap_; and what host_to_ converts is
\* stored by a host of either order as AES_PUT_ would have written it: for every value, every
\* offset and any number of values of a byte.
THEOREM HelpersCorrect == AnySpec => []HelpersAgree
<1>1. LibraryInv => HelpersAgree
  BY LibraryInputs, PutIsRead, ReadsMirror, HostsStore DEF LibraryInv, HelpersAgree
<1> QED BY <1>1, LibraryHolds, PTL

\* A dump that has returned shows every byte of the data in the line and column of its offset and
\* as many lines as the data needs (_aes_hexdump_ascii), and of a key that is to be hidden none
\* (aes_hexdump_key, aes_hexdump_ascii_key): for data and lines of every length.
THEOREM DumpsWhole == AnySpec => []DumpIsWhole
<1>1. LibraryInv => DumpIsWhole
  BY LibraryInputs, DumpSaid DEF LibraryInv, DumpIsWhole
<1> QED BY <1>1, LibraryHolds, PTL

=============================================================================
