----------------------------- MODULE MCGcmCall ------------------------------
(***************************************************************************)
(* One call of aes_gcm_ae or aes_gmac with inputs of every length that     *)
(* matters: empty, partial, exact and longer than a block, up to the       *)
(* longest message of the definition for a counter of five values, so that *)
(* the counter wraps.                                                      *)
(***************************************************************************)
EXTENDS Gcm

CONSTANTS k1, kShort

MCKeys == {k1, kShort}
MCKeyLen == [k \in MCKeys |-> IF k = k1 THEN 16 ELSE 20]

\* n bytes, all different.
Bytes(name, n) == [p \in 1..n |-> {<<name, p>>}]
Zeros(n) == [p \in 1..n |-> Zero]

MCIvs == {Zeros(12)} \cup {Bytes("iv", n) : n \in {0, 1, 12, 16, 17}}
MCMessages == {Bytes("m", n) : n \in {0, 1, 15, 16, 17, 32, 33, 48}}
MCAads == {Bytes("a", n) : n \in {0, 5, 16}}

\* Any number will do for the low word of a hashed IV; these make the
\* counter start in different places.
MCGhashLow(k, s) == (3 - Len(s)) % W

\* Bound: a second call opens, with the iv of the first, which has 12 bytes.
SecondOpens ==
    calls = 2 => /\ call.op = "ad"
                 /\ call.iv = Zeros(12)
                 /\ \E r \in sealed : r.iv = call.iv /\ r.aad = call.aad
=============================================================================
