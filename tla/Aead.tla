-------------------------------- MODULE Aead --------------------------------
(***************************************************************************)
(* What authenticated encryption promises to its caller, with nothing      *)
(* said of blocks, counters or hashes.  A service keeps the set of records *)
(* it has sealed; a call ends with an answer.                              *)
(*                                                                         *)
(*   - sealing produces a ciphertext of the plaintext's length and a tag   *)
(*     that no other (key, iv, aad, ciphertext) carries;                   *)
(*   - opening succeeds exactly for what was sealed, and then returns the  *)
(*     plaintext that was sealed;                                          *)
(*   - a call that could not obtain a cipher context answers -1 and seals  *)
(*     nothing.                                                            *)
(*                                                                         *)
(* Gcm, Ccm and Eax are shown to implement this module.                    *)
(***************************************************************************)
EXTENDS Integers, Sequences

VARIABLES
    sealed,     \* the records sealed so far
    answer      \* what the last call that returned has answered

vars == <<sealed, answer>>

NoAnswer == [op |-> "none", key |-> <<>>, iv |-> <<>>, aad |-> <<>>,
             plain |-> <<>>, crypt |-> <<>>, tag |-> <<>>,
             ready |-> FALSE, ret |-> 0]

\* The record an answer is about.
Record(a) == [key |-> a.key, iv |-> a.iv, aad |-> a.aad,
              plain |-> a.plain, crypt |-> a.crypt, tag |-> a.tag]

SameInputs(r, a) ==
    /\ r.key = a.key
    /\ r.iv = a.iv
    /\ r.aad = a.aad
    /\ r.crypt = a.crypt

Init == sealed = {} /\ answer = NoAnswer

Seal ==
    /\ answer'.op = "ae"
    /\ answer'.ready
    /\ answer'.ret = 0
    /\ Len(answer'.crypt) = Len(answer'.plain)
    /\ \A r \in sealed : (r.tag = answer'.tag) <=> SameInputs(r, answer')
    /\ sealed' = sealed \cup {Record(answer')}

Open ==
    /\ answer'.op = "ad"
    /\ answer'.ready
    /\ LET matching == {r \in sealed : SameInputs(r, answer') /\ r.tag = answer'.tag}
       IN  \/ /\ answer'.ret = 0
              /\ \E r \in matching : r.plain = answer'.plain
           \/ /\ answer'.ret = -1
              /\ matching = {}
    /\ UNCHANGED sealed

Refuse ==
    /\ answer'.op \in {"ae", "ad"}
    /\ ~answer'.ready
    /\ answer'.ret = -1
    /\ UNCHANGED sealed

Next == Seal \/ Open \/ Refuse

Spec == Init /\ [][Next]_vars
=============================================================================
