----------------------------- MODULE EaxProofs -------------------------------
(***************************************************************************)
(* EAX, for every set of keys, nonces, headers and messages and wherever a *)
(* call runs out of memory: what is in the caller's buffer is what the     *)
(* answer says, and the calls are a service of authenticated encryption.   *)
(***************************************************************************)
EXTENDS Eax, SequenceTheorems, TLAPS

-----------------------------------------------------------------------------
\* A function of 1..n is a sequence.
LEMMA FunctionIsSeq ==
    ASSUME NEW n \in Nat, NEW f, f = [p \in 1..n |-> f[p]]
    PROVE  IsSeq(f) /\ Len(f) = n
<1> DEFINE R == {f[p] : p \in 1..n}
<1>1. f \in [1..n -> R]
  OBVIOUS
<1>2. f \in Seq(R) /\ Len(f) = n
  BY <1>1
<1> QED BY <1>2 DEF IsSeq

\* The length of a sequence, and its places.
LEMMA SeqFacts ==
    ASSUME NEW x, IsSeq(x)
    PROVE  Len(x) \in Nat /\ DOMAIN x = 1..Len(x)
BY DEF IsSeq

\* Sequences with the same elements at the same places are one.
LEMMA SameSeq ==
    ASSUME NEW x, IsSeq(x), NEW y, IsSeq(y), Len(x) = Len(y),
           \A p \in 1..Len(x) : x[p] = y[p]
    PROVE  x = y
BY DEF IsSeq

-----------------------------------------------------------------------------
\* What callers pass as messages.
ByteMessages == \A m \in Messages : IsSeq(m)

CryptFor(key, nonce, m) == CtrOf(key, Omac(key, 0, nonce), m)
TagFor(key, nonce, hdr, crypt) ==
    Xor(Omac(key, 0, nonce), Xor(Omac(key, 2, crypt), Omac(key, 1, hdr)))

\* What the steps that are behind it have left to a call in progress.
Working ==
    /\ call.op \in {"ae", "ad"}
    /\ step >= 3 => macs.nonce = Omac(call.key, 0, call.nonce)
    /\ step >= 4 => macs.hdr = Omac(call.key, 1, call.hdr)
    /\ step = 6 \/ (step = 5 /\ call.op = "ad") => macs.data = Omac(call.key, 2, data)
    /\ data = IF step >= 5 /\ call.op = "ae"
              THEN CryptFor(call.key, call.nonce, call.in) ELSE call.in
    /\ call.op = "ad" => \E r \in sealed : r.tag = tag
    /\ step = 6 /\ call.op = "ad" => tag = FullTag
    /\ buf <=> step # 1 /\ ~(step = 6 /\ call.op = "ad")

\* What a call leaves behind.
Idle ==
    /\ ~buf
    /\ BufferAsAnswered
    /\ answer.op = "ae" => call.op = "ae"

SealedInv ==
    \A r \in sealed :
        /\ IsSeq(r.plain)
        /\ r.crypt = CryptFor(r.key, r.iv, r.plain)
        /\ r.tag = TagFor(r.key, r.iv, r.aad, r.crypt)

\* The inductive invariant.
Inv ==
    /\ ByteMessages
    /\ step \in 0..6 /\ calls \in Nat
    /\ IsSeq(call.in) /\ IsSeq(data)
    /\ call = [op |-> call.op, key |-> call.key, nonce |-> call.nonce,
               hdr |-> call.hdr, in |-> call.in]
    /\ macs = [nonce |-> macs.nonce, hdr |-> macs.hdr, data |-> macs.data]
    /\ step > 0 => Working
    /\ step = 0 => Idle
    /\ SealedInv

-----------------------------------------------------------------------------
\* Which step is which.
LEMMA StepIs ==
    ASSUME step \in 1..6, call.op \in {"ae", "ad"}
    PROVE  /\ At("malloc") <=> step = 1
           /\ At("nonce") <=> step = 2
           /\ At("hdr") <=> step = 3
           /\ At("ctr") <=> step = IF call.op = "ae" THEN 4 ELSE 6
           /\ At("data") <=> step = IF call.op = "ae" THEN 5 ELSE 4
           /\ At("tag") <=> step = 6 /\ call.op = "ae"
           /\ At("compare") <=> step = 5 /\ call.op = "ad"
           /\ Last <=> step = 6
<1>1. CASE call.op = "ae"
  <2>1. Steps(call.op) = <<"malloc", "nonce", "hdr", "ctr", "data", "tag">>
    BY <1>1 DEF Steps
  <2> DEFINE t == Steps(call.op)
  <2>2. /\ t[1] = "malloc" /\ t[2] = "nonce" /\ t[3] = "hdr"
        /\ t[4] = "ctr" /\ t[5] = "data" /\ t[6] = "tag"
        /\ Len(t) = 6
    BY <2>1
  <2>3. \A s : At(s) <=> t[step] = s
    BY DEF At
  <2>4. Last <=> step = 6
    BY <2>2 DEF Last
  <2> HIDE DEF t
  <2>5. \/ step = 1 \/ step = 2 \/ step = 3 \/ step = 4 \/ step = 5 \/ step = 6
    OBVIOUS
  <2> QED BY <1>1, <2>2, <2>3, <2>4, <2>5
<1>2. CASE call.op = "ad"
  <2>1. Steps(call.op) = <<"malloc", "nonce", "hdr", "data", "compare", "ctr">>
    BY <1>2 DEF Steps
  <2> DEFINE t == Steps(call.op)
  <2>2. /\ t[1] = "malloc" /\ t[2] = "nonce" /\ t[3] = "hdr"
        /\ t[4] = "data" /\ t[5] = "compare" /\ t[6] = "ctr"
        /\ Len(t) = 6
    BY <2>1
  <2>3. \A s : At(s) <=> t[step] = s
    BY DEF At
  <2>4. Last <=> step = 6
    BY <2>2 DEF Last
  <2> HIDE DEF t
  <2>5. \/ step = 1 \/ step = 2 \/ step = 3 \/ step = 4 \/ step = 5 \/ step = 6
    OBVIOUS
  <2> QED BY <1>2, <2>2, <2>3, <2>4, <2>5
<1> QED BY <1>1, <1>2

LEMMA AtIs ==
    ASSUME Inv, NEW s, At(s)
    PROVE  step \in 1..6 /\ Working
BY DEF Inv, At

LEMMA CtrOfIsSeq ==
    ASSUME NEW k, NEW c, NEW d, IsSeq(d)
    PROVE  IsSeq(CtrOf(k, c, d)) /\ Len(CtrOf(k, c, d)) = Len(d)
<1>1. Len(d) \in Nat
  BY SeqFacts
<1> QED BY <1>1, FunctionIsSeq DEF CtrOf

\* Decrypting is encrypting once more.
LEMMA CryptTwice ==
    ASSUME NEW k, NEW n, NEW m, IsSeq(m)
    PROVE  CryptFor(k, n, CryptFor(k, n, m)) = m
<1> DEFINE o == Omac(k, 0, n)
           c == CtrOf(k, o, m)
<1>1. IsSeq(c) /\ Len(c) = Len(m)
  BY CtrOfIsSeq
<1>2. IsSeq(CtrOf(k, o, c)) /\ Len(CtrOf(k, o, c)) = Len(m)
  BY <1>1, CtrOfIsSeq
<1>3. ASSUME NEW p \in 1..Len(m)
      PROVE  CtrOf(k, o, c)[p] = m[p]
  <2> DEFINE s == {<<"ctr", k, o, p>>}
  <2>1. c[p] = Xor(m[p], s)
    BY DEF CtrOf
  <2>2. CtrOf(k, o, c)[p] = Xor(c[p], s)
    <3> HIDE DEF c, o
    <3> QED BY <1>1 DEF CtrOf
  <2>3. Xor(Xor(m[p], s), s) = m[p]
    <3> HIDE DEF s
    <3> QED BY DEF Xor
  <2> HIDE DEF c, s
  <2> QED BY <2>1, <2>2, <2>3
<1> HIDE DEF c
<1>4. CtrOf(k, o, c) = m
  BY <1>2, <1>3, SameSeq
<1> QED BY <1>4 DEF c, CryptFor

\* A tag is three MACs, which the block in front tells apart: it determines
\* everything that went into them.
LEMMA TagForInjective ==
    ASSUME NEW k, NEW n, NEW h, NEW c, NEW l, NEW o, NEW g, NEW d,
           TagFor(k, n, h, c) = TagFor(l, o, g, d)
    PROVE  k = l /\ n = o /\ h = g /\ c = d
<1>1. ASSUME NEW a, NEW x, NEW y, NEW z
      PROVE  TagFor(a, x, y, z)
               = {<<"omac", a, 0, x>>, <<"omac", a, 1, y>>, <<"omac", a, 2, z>>}
  <2>1. /\ <<"omac", a, 0, x>> # <<"omac", a, 1, y>>
        /\ <<"omac", a, 0, x>> # <<"omac", a, 2, z>>
        /\ <<"omac", a, 1, y>> # <<"omac", a, 2, z>>
    OBVIOUS
  <2> DEFINE p == <<"omac", a, 0, x>>
             q == <<"omac", a, 1, y>>
             r == <<"omac", a, 2, z>>
  <2>2. TagFor(a, x, y, z) = Xor({p}, Xor({r}, {q}))
    BY DEF TagFor, Omac
  <2> HIDE DEF p, q, r
  <2>3. p # q /\ p # r /\ q # r
    BY <2>1 DEF p, q, r
  <2>4. Xor({p}, Xor({r}, {q})) = {p, q, r}
    BY <2>3 DEF Xor
  <2> QED BY <2>2, <2>4 DEF p, q, r
<1> DEFINE s == {<<"omac", k, 0, n>>, <<"omac", k, 1, h>>, <<"omac", k, 2, c>>}
           t == {<<"omac", l, 0, o>>, <<"omac", l, 1, g>>, <<"omac", l, 2, d>>}
<1>2. s = t
  BY <1>1
<1>3. <<"omac", k, 0, n>> \in t /\ <<"omac", k, 1, h>> \in t /\ <<"omac", k, 2, c>> \in t
  BY <1>2, Zenon
<1>4. k = l /\ n = o
  BY <1>3
<1>5. h = g /\ c = d
  BY <1>3
<1> QED BY <1>4, <1>5

\* Outcome changes the result of an answer only.
LEMMA AnswerWithRet ==
    ASSUME NEW op, NEW key, NEW iv, NEW aad, NEW plain, NEW crypt, NEW t, NEW ready,
           NEW old, NEW ret
    PROVE  [[op |-> op, key |-> key, iv |-> iv, aad |-> aad, plain |-> plain,
             crypt |-> crypt, tag |-> t, ready |-> ready, ret |-> old] EXCEPT !.ret = ret]
             = [op |-> op, key |-> key, iv |-> iv, aad |-> aad, plain |-> plain,
                crypt |-> crypt, tag |-> t, ready |-> ready, ret |-> ret]
OBVIOUS

-----------------------------------------------------------------------------
LEMMA InitInv == ASSUME ByteMessages, Init PROVE Inv
<1>1. IsSeq(<<>>)
  BY DEF IsSeq
<1> QED BY <1>1 DEF Init, Inv, Idle, NoCall, NoMacs, BufferAsAnswered, SealedInv, A!NoAnswer

\* A call begins with the data in the buffer; a tag presented was issued.
LEMMA EnterInv ==
    ASSUME Inv, NEW c, NEW t, Enter(c, t), c.op \in {"ae", "ad"}, IsSeq(c.in),
           c = [op |-> c.op, key |-> c.key, nonce |-> c.nonce, hdr |-> c.hdr, in |-> c.in],
           c.op = "ad" => \E r \in sealed : r.tag = t
    PROVE  Inv' /\ UNCHANGED <<sealed, answer>>
<1> USE DEF Inv, Enter
<1>1. Working'
  <2>1. step' = 1 /\ data' = call'.in /\ call'.op \in {"ae", "ad"} /\ ~buf'
    BY DEF Idle
  <2>2. call'.op = "ad" => \E r \in sealed' : r.tag = tag'
    OBVIOUS
  <2> HIDE DEF Inv, Enter
  <2> QED BY <2>1, <2>2 DEF Working
<1>2. SealedInv'
  BY DEF SealedInv
<1> QED BY <1>1, <1>2 DEF ByteMessages, NoMacs

LEMMA CallInv ==
    ASSUME Inv,
           \/ \E k \in Keys, n \in Nonces, h \in Headers : Encrypt(k, n, h) \/ Decrypt(k, n, h)
           \/ EncryptAgain
    PROVE  Inv' /\ UNCHANGED <<sealed, answer>>
<1>1. ASSUME NEW k \in Keys, NEW n \in Nonces, NEW h \in Headers, NEW m \in Messages,
             Enter([op |-> "ae", key |-> k, nonce |-> n, hdr |-> h, in |-> m], NoTag)
      PROVE  Inv' /\ UNCHANGED <<sealed, answer>>
  <2> DEFINE c == [op |-> "ae", key |-> k, nonce |-> n, hdr |-> h, in |-> m]
  <2>1. /\ Enter(c, NoTag) /\ c.op = "ae" /\ IsSeq(c.in)
        /\ c = [op |-> c.op, key |-> c.key, nonce |-> c.nonce, hdr |-> c.hdr, in |-> c.in]
    BY <1>1 DEF Inv, ByteMessages
  <2> HIDE DEF c
  <2> QED BY <2>1, EnterInv
<1>2. ASSUME NEW k \in Keys, NEW n \in Nonces, NEW h \in Headers,
             NEW r \in sealed, NEW d \in Presented(k, n),
             Enter([op |-> "ad", key |-> k, nonce |-> n, hdr |-> h, in |-> d], r.tag)
      PROVE  Inv' /\ UNCHANGED <<sealed, answer>>
  <2> DEFINE c == [op |-> "ad", key |-> k, nonce |-> n, hdr |-> h, in |-> d]
  <2>1. IsSeq(d)
    <3>1. ASSUME NEW q \in sealed PROVE IsSeq(q.crypt)
      BY CtrOfIsSeq DEF Inv, SealedInv, CryptFor
    <3>2. ASSUME NEW m \in Messages PROVE IsSeq(CtrOf(k, Omac(k, 0, n), m))
      BY CtrOfIsSeq DEF Inv, ByteMessages
    <3> QED BY <3>1, <3>2 DEF Presented
  <2>2. /\ Enter(c, r.tag) /\ c.op = "ad" /\ IsSeq(c.in)
        /\ c = [op |-> c.op, key |-> c.key, nonce |-> c.nonce, hdr |-> c.hdr, in |-> c.in]
    BY <1>2, <2>1
  <2> HIDE DEF c
  <2> QED BY <2>2, EnterInv
<1>3. CASE EncryptAgain
  <2> DEFINE c == [call EXCEPT !.in = data]
  <2>1. Enter(c, NoTag) /\ step = 0 /\ answer.op = "ae"
    BY <1>3 DEF EncryptAgain, Enter
  <2>2. c = [op |-> call.op, key |-> call.key, nonce |-> call.nonce, hdr |-> call.hdr,
             in |-> data]
    BY <2>1 DEF Inv
  <2>3. c.op = "ae" /\ IsSeq(c.in)
        /\ c = [op |-> c.op, key |-> c.key, nonce |-> c.nonce, hdr |-> c.hdr, in |-> c.in]
    <3>1. call.op = "ae" /\ IsSeq(data)
      BY <2>1 DEF Inv, Idle
    <3> HIDE DEF c
    <3> QED BY <2>2, <3>1
  <2> HIDE DEF c
  <2> QED BY <2>1, <2>3, EnterInv
<1> QED BY <1>1, <1>2, <1>3 DEF Encrypt, Decrypt

\* A step that fails leaves the data as it was, or all of it encrypted.
LEMMA FailsInv ==
    ASSUME Inv, Fails
    PROVE  Inv' /\ A!Refuse
<1> USE DEF Inv, Fails, Answer
<1>1. Working /\ step \in 1..6 /\ call.op \in {"ae", "ad"}
  BY AtIs DEF Working
<1>2. step = 5 /\ call.op = "ae" => macs.hdr # NoMac
  <2>1. step = 5 /\ call.op = "ae" => macs.hdr = Omac(call.key, 1, call.hdr)
    BY <1>1 DEF Working
  <2>2. Omac(call.key, 1, call.hdr) # NoMac
    BY DEF Omac, NoMac
  <2> QED BY <2>1, <2>2
<1>3. data = IF step >= 5 /\ call.op = "ae"
             THEN CryptFor(call.key, call.nonce, call.in) ELSE call.in
  BY <1>1 DEF Working
<1>4. step = 6 => call.op = "ad"
  BY <1>1, StepIs
<1>5. answer'.ret = -1 /\ answer'.op = call.op /\ ~answer'.ready /\ Outcome'.ret = -1
      /\ Outcome'.op = call.op /\ ~Outcome'.ready
  BY DEF Outcome
<1>6. Idle'
  <2>1. BufferAsAnswered'
    BY <1>1, <1>2, <1>3, <1>4, <1>5 DEF BufferAsAnswered, CryptFor
  <2> QED BY <1>5, <2>1 DEF Idle
<1>7. SealedInv'
  BY DEF SealedInv
<1>8. A!Refuse
  BY <1>1, <1>5 DEF A!Refuse
<1> QED BY <1>6, <1>7, <1>8 DEF ByteMessages

LEMMA MallocInv == ASSUME Inv, Malloc PROVE Inv' /\ UNCHANGED <<sealed, answer>>
<1> USE DEF Inv, Malloc
<1>1. Working /\ step \in 1..6 /\ call.op \in {"ae", "ad"}
  BY AtIs DEF Working
<1>2. step = 1 /\ step' = 2
  BY <1>1, StepIs DEF Goes
<1>3. Working'
  BY <1>1, <1>2 DEF Working
<1>4. SealedInv'
  BY DEF SealedInv
<1> QED BY <1>2, <1>3, <1>4 DEF ByteMessages

LEMMA AuthenticateInv ==
    ASSUME Inv, Authenticate
    PROVE  Inv' /\ UNCHANGED <<sealed, answer>>
<1> USE DEF Inv, Authenticate
<1>1. Working /\ step \in 1..6 /\ call.op \in {"ae", "ad"}
  BY AtIs DEF Working
<1>2. /\ step \in {2, 3} \/ step = (IF call.op = "ae" THEN 5 ELSE 4)
      /\ step' = step + 1
  BY <1>1, StepIs DEF Goes
<1>3. macs' = CASE step = 2 -> [macs EXCEPT !.nonce = Omac(call.key, 0, call.nonce)]
                [] step = 3 -> [macs EXCEPT !.hdr = Omac(call.key, 1, call.hdr)]
                [] OTHER -> [macs EXCEPT !.data = Omac(call.key, 2, data)]
  <2>1. /\ At("nonce") <=> step = 2
        /\ At("hdr") <=> step = 3
        /\ At("data") <=> step = IF call.op = "ae" THEN 5 ELSE 4
    BY <1>1, StepIs
  <2> QED BY <1>2, <2>1
<1>4. Working' /\ macs' = [nonce |-> macs'.nonce, hdr |-> macs'.hdr, data |-> macs'.data]
  <2>1. CASE step = 2
    <3>1. macs' = [nonce |-> Omac(call.key, 0, call.nonce), hdr |-> macs.hdr,
                   data |-> macs.data]
      BY <1>3, <2>1
    <3> QED BY <1>1, <1>2, <2>1, <3>1 DEF Working
  <2>2. CASE step = 3
    <3>1. macs' = [nonce |-> macs.nonce, hdr |-> Omac(call.key, 1, call.hdr),
                   data |-> macs.data]
      BY <1>3, <2>2
    <3> QED BY <1>1, <1>2, <2>2, <3>1 DEF Working
  <2>3. CASE step = IF call.op = "ae" THEN 5 ELSE 4
    <3>1. macs' = [nonce |-> macs.nonce, hdr |-> macs.hdr,
                   data |-> Omac(call.key, 2, data)]
      BY <1>1, <1>3, <2>3
    <3> QED BY <1>1, <1>2, <2>3, <3>1 DEF Working
  <2> QED BY <1>2, <2>1, <2>2, <2>3
<1>5. SealedInv'
  BY DEF SealedInv
<1> QED BY <1>1, <1>2, <1>4, <1>5 DEF ByteMessages

\* The MACs of the call that computes or compares a tag make the tag of its data.
LEMMA TagOfCall ==
    ASSUME Inv, Working, step = 6 \/ (step = 5 /\ call.op = "ad")
    PROVE  FullTag = TagFor(call.key, call.nonce, call.hdr, data)
BY DEF Inv, Working, FullTag, TagFor

\* Sealing gives a tag that exactly the inputs of an earlier record have.
LEMMA MakeTagInv ==
    ASSUME Inv, MakeTag
    PROVE  Inv' /\ A!Seal
<1> USE DEF Inv
<1> DEFINE t == TagFor(call.key, call.nonce, call.hdr, data)
<1>1. Working /\ step = 6 /\ call.op = "ae" /\ step' = 0
  <2>1. Working /\ step \in 1..6 /\ call.op \in {"ae", "ad"} /\ At("tag") /\ Goes
    BY AtIs DEF Working, MakeTag
  <2> QED BY <2>1, StepIs DEF Goes
<1>2. data = CryptFor(call.key, call.nonce, call.in) /\ tag' = t
  BY <1>1, TagOfCall DEF Working, MakeTag
<1>3. UNCHANGED <<call, data, macs, calls>> /\ buf' = FALSE
      /\ sealed' = sealed \cup {A!Record(answer')}
  BY DEF MakeTag
<1>4. answer' = [op |-> "ae", key |-> call.key, iv |-> call.nonce, aad |-> call.hdr,
                 plain |-> call.in, crypt |-> data, tag |-> t, ready |-> TRUE, ret |-> 0]
  BY <1>1, <1>2, <1>3 DEF MakeTag, Answer
<1> DEFINE r == [key |-> call.key, iv |-> call.nonce, aad |-> call.hdr,
                 plain |-> call.in, crypt |-> data, tag |-> t]
<1>5. A!Record(answer') = r /\ Outcome' = answer'
  <2>1. A!Record(answer') = r
    BY <1>4 DEF A!Record
  <2>2. answer'.ret = 0 /\ Outcome' = [answer' EXCEPT !.ret = 0]
    BY <1>4 DEF Outcome
  <2> HIDE DEF Inv, t
  <2> QED BY <1>4, <2>1, <2>2, AnswerWithRet
<1> HIDE DEF t
<1>6. SealedInv'
  BY <1>2, <1>3, <1>5 DEF SealedInv, t
<1>7. Idle'
  BY <1>1, <1>2, <1>3, <1>4 DEF Idle, BufferAsAnswered, CryptFor
<1>8. ASSUME NEW q \in sealed
      PROVE  (q.tag = Outcome'.tag) <=> A!SameInputs(q, Outcome')
  <2> DEFINE same == /\ q.key = call.key /\ q.iv = call.nonce
                     /\ q.aad = call.hdr /\ q.crypt = data
  <2>1. q.tag = TagFor(q.key, q.iv, q.aad, q.crypt)
    BY DEF SealedInv
  <2>2. q.tag = t => same
    <3> SUFFICES ASSUME q.tag = t PROVE same
      OBVIOUS
    <3>1. TagFor(q.key, q.iv, q.aad, q.crypt)
            = TagFor(call.key, call.nonce, call.hdr, data)
      BY <2>1 DEF t
    <3> HIDE DEF Inv
    <3> QED BY <3>1, TagForInjective
  <2>3. same => q.tag = t
    BY <2>1 DEF t
  <2>4. A!SameInputs(q, Outcome') <=> same
    BY <1>4, <1>5 DEF A!SameInputs
  <2>5. Outcome'.tag = t
    BY <1>4, <1>5
  <2> QED BY <2>2, <2>3, <2>4, <2>5
<1>9. A!Seal
  <2>1. sealed' = sealed \cup {A!Record(Outcome')}
    BY <1>3, <1>5
  <2>2. Len(data) = Len(call.in)
    BY <1>2, CtrOfIsSeq DEF CryptFor
  <2>3. /\ Outcome'.op = "ae" /\ Outcome'.ready /\ Outcome'.ret = 0
        /\ Len(Outcome'.crypt) = Len(Outcome'.plain)
    BY <1>4, <1>5, <2>2
  <2> QED BY <1>8, <2>1, <2>3 DEF A!Seal
<1> QED BY <1>1, <1>3, <1>6, <1>7, <1>9 DEF ByteMessages

\* A tag that differs: nothing that was sealed has it with these inputs.
LEMMA CompareFails ==
    ASSUME Inv, Compare, tag # FullTag
    PROVE  Inv' /\ A!Open
<1> USE DEF Inv
<1>1. /\ Working /\ step = 5 /\ call.op = "ad" /\ ~Last
      /\ data = call.in
  <2>1. Working /\ step \in 1..6 /\ call.op \in {"ae", "ad"} /\ At("compare")
    BY AtIs DEF Working, Compare
  <2>2. step = 5 /\ call.op = "ad" /\ ~Last
    BY <2>1, StepIs
  <2> QED BY <2>1, <2>2 DEF Working
<1>2. UNCHANGED <<call, data, tag, macs, calls, sealed>> /\ buf' = FALSE /\ step' = 0
  BY <1>1 DEF Compare
<1>3. answer' = [op |-> "ad", key |-> call.key, iv |-> call.nonce, aad |-> call.hdr,
                 plain |-> data, crypt |-> call.in, tag |-> tag,
                 ready |-> TRUE, ret |-> -2]
  BY <1>1, <1>2 DEF Compare, Answer
<1>4. Outcome' = [op |-> "ad", key |-> call.key, iv |-> call.nonce, aad |-> call.hdr,
                  plain |-> data, crypt |-> call.in, tag |-> tag,
                  ready |-> TRUE, ret |-> -1]
  <2>1. answer'.ret = -2 /\ Outcome' = [answer' EXCEPT !.ret = -1]
    BY <1>3 DEF Outcome
  <2> HIDE DEF Inv
  <2> QED BY <1>3, <2>1, AnswerWithRet
<1>5. Idle'
  BY <1>1, <1>2, <1>3 DEF Idle, BufferAsAnswered
<1>6. SealedInv'
  BY <1>2 DEF SealedInv
<1> DEFINE matching == {r \in sealed : A!SameInputs(r, Outcome') /\ r.tag = Outcome'.tag}
<1>7. ASSUME NEW r \in matching PROVE FALSE
  <2>1. /\ r \in sealed /\ r.tag = tag /\ r.key = call.key /\ r.iv = call.nonce
        /\ r.aad = call.hdr /\ r.crypt = data
    BY <1>1, <1>4 DEF A!SameInputs
  <2>2. r.tag = TagFor(r.key, r.iv, r.aad, r.crypt)
    BY <2>1 DEF SealedInv
  <2> QED BY <1>1, <2>1, <2>2, TagOfCall
<1>8. A!Open
  BY <1>2, <1>4, <1>7 DEF A!Open
<1> QED BY <1>2, <1>5, <1>6, <1>8 DEF ByteMessages

\* A tag that is right lets the decryption go on.
LEMMA CompareSucceeds ==
    ASSUME Inv, Compare, tag = FullTag
    PROVE  Inv' /\ UNCHANGED <<sealed, answer>>
<1> USE DEF Inv
<1>1. Working /\ step = 5 /\ call.op = "ad" /\ ~Last
  <2>1. Working /\ step \in 1..6 /\ call.op \in {"ae", "ad"} /\ At("compare")
    BY AtIs DEF Working, Compare
  <2> QED BY <2>1, StepIs
<1>2. UNCHANGED <<call, data, tag, macs, calls, sealed, answer>> /\ buf' = FALSE
      /\ step' = 6
  BY <1>1 DEF Compare, Goes
<1>3. Working'
  BY <1>1, <1>2 DEF Working, FullTag
<1>4. SealedInv'
  BY <1>2 DEF SealedInv
<1> QED BY <1>2, <1>3, <1>4 DEF ByteMessages

\* Encrypting in place, in the middle of the call.
LEMMA CtrOfAe ==
    ASSUME Inv, Ctr, call.op = "ae"
    PROVE  Inv' /\ UNCHANGED <<sealed, answer>>
<1> USE DEF Inv
<1>1. Working /\ step = 4 /\ ~Last
  <2>1. Working /\ step \in 1..6 /\ call.op \in {"ae", "ad"} /\ At("ctr")
    BY AtIs DEF Working, Ctr
  <2> QED BY <2>1, StepIs
<1>2. UNCHANGED <<call, tag, buf, macs, calls, sealed, answer>> /\ step' = 5
  BY <1>1 DEF Ctr, Goes
<1>3. data' = CryptFor(call.key, call.nonce, call.in) /\ IsSeq(data')
  BY <1>1, CtrOfIsSeq DEF Working, Ctr, CryptFor
<1>4. Working'
  BY <1>1, <1>2, <1>3 DEF Working
<1>5. SealedInv'
  BY <1>2 DEF SealedInv
<1> QED BY <1>2, <1>3, <1>4, <1>5 DEF ByteMessages

\* Decrypting in place ends a call that found the tag right: the plaintext is the
\* one that was sealed with it.
LEMMA CtrOfAd ==
    ASSUME Inv, Ctr, call.op = "ad"
    PROVE  Inv' /\ A!Open
<1> USE DEF Inv
<1>1. Working /\ step = 6 /\ Last
  <2>1. Working /\ step \in 1..6 /\ call.op \in {"ae", "ad"} /\ At("ctr")
    BY AtIs DEF Working, Ctr
  <2> QED BY <2>1, StepIs
<1>2. /\ UNCHANGED <<call, tag, buf, macs, calls, sealed>> /\ step' = 0 /\ ~buf
      /\ data = call.in
  BY <1>1 DEF Ctr, Goes, Working
<1>3. data' = CryptFor(call.key, call.nonce, call.in) /\ IsSeq(data')
  BY <1>1, <1>2, CtrOfIsSeq DEF Working, Ctr, CryptFor
<1>4. answer' = [op |-> "ad", key |-> call.key, iv |-> call.nonce, aad |-> call.hdr,
                 plain |-> data', crypt |-> call.in, tag |-> tag,
                 ready |-> TRUE, ret |-> 0]
  BY <1>1, <1>2 DEF Ctr, Answer
<1>5. Outcome' = answer'
  <2>1. answer'.ret = 0 /\ Outcome' = [answer' EXCEPT !.ret = 0]
    BY <1>4 DEF Outcome
  <2> HIDE DEF Inv
  <2> QED BY <1>4, <2>1, AnswerWithRet
<1>6. Idle'
  BY <1>1, <1>2, <1>3, <1>4 DEF Idle, BufferAsAnswered, CryptFor
<1>7. SealedInv'
  BY <1>2 DEF SealedInv
<1> DEFINE matching == {r \in sealed : A!SameInputs(r, Outcome') /\ r.tag = Outcome'.tag}
<1>8. PICK r \in sealed : r.tag = tag
  BY <1>1 DEF Working
<1>9. /\ r.key = call.key /\ r.iv = call.nonce /\ r.aad = call.hdr /\ r.crypt = call.in
      /\ r.plain = data'
  <2>1. /\ IsSeq(r.plain) /\ r.crypt = CryptFor(r.key, r.iv, r.plain)
        /\ r.tag = TagFor(r.key, r.iv, r.aad, r.crypt)
    BY DEF SealedInv
  <2>2. TagFor(r.key, r.iv, r.aad, r.crypt) = TagFor(call.key, call.nonce, call.hdr, call.in)
    BY <1>1, <1>2, <1>8, <2>1, TagOfCall DEF Working
  <2>3. r.key = call.key /\ r.iv = call.nonce /\ r.aad = call.hdr /\ r.crypt = call.in
    <3> HIDE DEF Inv
    <3> QED BY <2>2, TagForInjective
  <2>4. CryptFor(r.key, r.iv, r.crypt) = r.plain
    BY <2>1, CryptTwice
  <2> QED BY <1>3, <2>3, <2>4
<1>10. r \in matching /\ r.plain = Outcome'.plain
  BY <1>4, <1>5, <1>8, <1>9 DEF A!SameInputs
<1>11. A!Open
  BY <1>2, <1>4, <1>5, <1>10 DEF A!Open
<1> QED BY <1>2, <1>3, <1>6, <1>7, <1>11 DEF ByteMessages

\* Each step of a call is a step of the service, or none.
LEMMA NextInv ==
    ASSUME Inv, [Next]_vars
    PROVE  Inv' /\ [A!Next]_<<sealed, Outcome>>
<1>1. ASSUME UNCHANGED <<sealed, answer>>
      PROVE  UNCHANGED <<sealed, Outcome>>
  BY <1>1 DEF Outcome
<1>2. CASE \/ \E k \in Keys, n \in Nonces, h \in Headers : Encrypt(k, n, h) \/ Decrypt(k, n, h)
           \/ EncryptAgain
  BY <1>1, <1>2, CallInv
<1>3. CASE Fails
  BY <1>3, FailsInv DEF A!Next
<1>4. CASE Malloc
  BY <1>1, <1>4, MallocInv
<1>5. CASE Authenticate
  BY <1>1, <1>5, AuthenticateInv
<1>6. CASE Ctr
  <2>1. call.op \in {"ae", "ad"}
    BY <1>6, AtIs DEF Ctr, Working
  <2>2. CASE call.op = "ae"
    BY <1>1, <1>6, <2>2, CtrOfAe
  <2>3. CASE call.op = "ad"
    BY <1>6, <2>3, CtrOfAd DEF A!Next
  <2> QED BY <2>1, <2>2, <2>3
<1>7. CASE MakeTag
  BY <1>7, MakeTagInv DEF A!Next
<1>8. CASE Compare
  <2>1. CASE tag = FullTag
    BY <1>1, <1>8, <2>1, CompareSucceeds
  <2>2. CASE tag # FullTag
    BY <1>8, <2>2, CompareFails DEF A!Next
  <2> QED BY <2>1, <2>2
<1>9. CASE UNCHANGED vars
  <2>1. UNCHANGED <<sealed, answer>>
    BY <1>9 DEF vars
  <2>2. (step > 0 => Working)'
    BY <1>9 DEF Inv, Working, FullTag, vars
  <2>3. (step = 0 => Idle)'
    BY <1>9 DEF Inv, Idle, BufferAsAnswered, vars
  <2>4. SealedInv'
    BY <1>9 DEF Inv, SealedInv, vars
  <2>5. Inv'
    BY <1>9, <2>2, <2>3, <2>4 DEF Inv, ByteMessages, vars
  <2> QED BY <1>1, <2>1, <2>5
<1> QED BY <1>2, <1>3, <1>4, <1>5, <1>6, <1>7, <1>8, <1>9 DEF Next

\* The buffers of a call, in progress or not.
LEMMA BufferFromInv ==
    ASSUME Inv
    PROVE  BufferAsAnswered /\ BufferFreed
<1>1. ASSUME At("nonce") \/ At("hdr") \/ At("data") PROVE buf
  <2>1. Working /\ step \in 1..6 /\ call.op \in {"ae", "ad"}
    BY <1>1, AtIs DEF Working
  <2>2. step \in {2, 3} \/ step = (IF call.op = "ae" THEN 5 ELSE 4)
    BY <1>1, <2>1, StepIs
  <2> QED BY <2>1, <2>2 DEF Working
<1>2. BufferFreed
  BY <1>1 DEF BufferFreed, Inv, Idle
<1>3. BufferAsAnswered
  BY DEF Inv, Idle, BufferAsAnswered
<1> QED BY <1>2, <1>3

-----------------------------------------------------------------------------
\* Wherever a call runs out of memory, what is in the caller's buffer is what the
\* answer says (aes_128_eax_encrypt, aes_128_eax_decrypt).
THEOREM BufferCorrect == ASSUME ByteMessages PROVE Spec => []BufferAsAnswered
<1>1. Inv /\ [Next]_vars => Inv'
  BY NextInv
<1>2. Inv => BufferAsAnswered
  BY BufferFromInv
<1>3. Init => Inv
  BY InitInv
<1> QED BY <1>1, <1>2, <1>3, PTL DEF Spec

\* Every way out of a call frees the temporary buffer, and no MAC is computed
\* from it after that (aes_128_eax_encrypt, aes_128_eax_decrypt).
THEOREM BufferNotLost == ASSUME ByteMessages PROVE Spec => []BufferFreed
<1>1. Inv /\ [Next]_vars => Inv'
  BY NextInv
<1>2. Inv => BufferFreed
  BY BufferFromInv
<1>3. Init => Inv
  BY InitInv
<1> QED BY <1>1, <1>2, <1>3, PTL DEF Spec

\* For every set of keys, nonces, headers and messages the functions are a service
\* of authenticated encryption.
THEOREM AeadImplemented == ASSUME ByteMessages PROVE Spec => ImplementsAead
<1>1. ASSUME Init PROVE Inv /\ A!Init
  <2>1. answer = A!NoAnswer /\ A!NoAnswer.ret = 0
    BY <1>1 DEF Init, A!NoAnswer
  <2>2. Outcome = [A!NoAnswer EXCEPT !.ret = 0]
    BY <2>1 DEF Outcome
  <2>3. [A!NoAnswer EXCEPT !.ret = 0] = A!NoAnswer
    BY AnswerWithRet DEF A!NoAnswer
  <2> QED BY <1>1, <2>2, <2>3, InitInv DEF Init, A!Init
<1>2. Inv /\ [Next]_vars => Inv' /\ [A!Next]_<<sealed, Outcome>>
  BY NextInv
<1> QED BY <1>1, <1>2, PTL DEF Spec, ImplementsAead, A!Spec, A!vars
=============================================================================
