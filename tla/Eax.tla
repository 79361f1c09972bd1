-------------------------------- MODULE Eax ---------------------------------
(***************************************************************************)
(* aes_128_eax_encrypt and aes_128_eax_decrypt (src/aes-eax.c), one action *)
(* per function they call.  Each of these functions gets memory of its own *)
(* and may fail.  The data is encrypted in place.                          *)
(*                                                                         *)
(* Data.  Omac has the MAC: here it is ideal, OMAC of a block t and some   *)
(* bytes is an atom.  Ctr has counter mode: here it encrypts a byte at a   *)
(* place with an atom, and all of the data or none.  Macs and tags are     *)
(* sets of atoms as bytes are, so that their exclusive or is Xor.          *)
(***************************************************************************)
EXTENDS Blocks

CONSTANTS
    Keys, Nonces, Headers, Messages,    \* what callers pass
    MaxCalls                            \* bound: calls made in a behaviour

VARIABLES
    step,       \* the step the call in progress is at; 0 between calls
    call,       \* its arguments, and the data as it was handed over
    data,       \* the caller's buffer
    tag,        \* the tag the caller passes, or gets
    buf,        \* is the temporary buffer allocated
    macs,       \* nonce_mac, hdr_mac and data_mac
    calls,      \* calls made
    sealed,     \* history: what calls of aes_128_eax_encrypt returned
    answer      \* history: what the last call that returned has answered

vars == <<step, call, data, tag, buf, macs, calls, sealed, answer>>

\* The service sees a wrong tag as it sees any refusal.
Outcome == [answer EXCEPT !.ret = IF @ = -2 THEN -1 ELSE @]
A == INSTANCE Aead WITH sealed <- sealed, answer <- Outcome

NoMac == {}
NoTag == {}
NoMacs == [nonce |-> NoMac, hdr |-> NoMac, data |-> NoMac]
NoCall == [op |-> "none", key |-> <<>>, nonce |-> <<>>, hdr |-> <<>>, in |-> <<>>]

\* Mutant: the data is decrypted before the tag is compared.
Steps_early(op) ==
    IF op = "ae" THEN <<"malloc", "nonce", "hdr", "ctr", "data", "tag">>
    ELSE <<"malloc", "nonce", "hdr", "data", "ctr", "compare">>

\* The order of the calls in the two functions.
Steps(op) ==
    IF op = "ae" THEN <<"malloc", "nonce", "hdr", "ctr", "data", "tag">>
    ELSE <<"malloc", "nonce", "hdr", "data", "compare", "ctr">>

At(s) == step > 0 /\ Steps(call.op)[step] = s
Last == step = Len(Steps(call.op))
Goes == step' = IF Last THEN 0 ELSE step + 1

\* Mutant: the same block in front of all three.
Omac_same(key, t, bytes) == {<<"omac", key, bytes>>}

Omac(key, t, bytes) == {<<"omac", key, t, bytes>>}

CtrOf(key, counter, d) ==
    [p \in 1..Len(d) |-> Xor(d[p], {<<"ctr", key, counter, p>>})]

Init ==
    /\ step = 0 /\ call = NoCall
    /\ data = <<>> /\ tag = NoTag
    /\ buf = FALSE /\ macs = NoMacs
    /\ calls = 0
    /\ sealed = {} /\ answer = A!NoAnswer

Enter(c, t) ==
    /\ step = 0 /\ calls < MaxCalls
    /\ step' = 1 /\ calls' = calls + 1
    /\ call' = c
    /\ data' = c.in /\ tag' = t
    /\ macs' = NoMacs
    /\ UNCHANGED <<buf, sealed, answer>>

Encrypt(k, n, h) ==
    \E m \in Messages :
        Enter([op |-> "ae", key |-> k, nonce |-> n, hdr |-> h, in |-> m], NoTag)

\* A caller whose call failed passes the same buffer once more, whatever is in
\* it now.
EncryptAgain ==
    /\ answer.op = "ae" /\ answer.ret = -1
    /\ Enter([call EXCEPT !.in = data], NoTag)

\* What a peer presents: data that was sealed, or that any message becomes with
\* this nonce, with a tag that was issued for something.
Presented(k, n) ==
    {r.crypt : r \in sealed} \cup {CtrOf(k, Omac(k, 0, n), m) : m \in Messages}

Decrypt(k, n, h) ==
    \E r \in sealed, c \in Presented(k, n) :
        Enter([op |-> "ad", key |-> k, nonce |-> n, hdr |-> h, in |-> c], r.tag)

Answer(ready, ret) ==
    answer' = [op |-> call.op, key |-> call.key, iv |-> call.nonce, aad |-> call.hdr,
               plain |-> IF call.op = "ae" THEN call.in ELSE data',
               crypt |-> IF call.op = "ae" THEN data' ELSE call.in,
               tag |-> tag', ready |-> ready, ret |-> ret]

\* malloc, or a function that is called, has no memory.
Fails ==
    /\ At("malloc") \/ At("nonce") \/ At("hdr") \/ At("data") \/ At("ctr")
    /\ step' = 0
    /\ buf' = FALSE
    /\ UNCHANGED <<call, data, tag, macs, calls, sealed>>
    /\ Answer(FALSE, -1)

Malloc ==
    /\ At("malloc")
    /\ Goes
    /\ buf' = TRUE
    /\ UNCHANGED <<call, data, tag, macs, calls, sealed, answer>>

\* OMAC of the block 0, 1 or 2 and the nonce, the header or the data.
Authenticate ==
    /\ At("nonce") \/ At("hdr") \/ At("data")
    /\ Goes
    /\ macs' = CASE At("nonce") -> [macs EXCEPT !.nonce = Omac(call.key, 0, call.nonce)]
                 [] At("hdr") -> [macs EXCEPT !.hdr = Omac(call.key, 1, call.hdr)]
                 [] At("data") -> [macs EXCEPT !.data = Omac(call.key, 2, data)]
    /\ UNCHANGED <<call, data, tag, buf, calls, sealed, answer>>

FullTag == Xor(macs.nonce, Xor(macs.data, macs.hdr))

\* Counter mode from the MAC of the nonce, which ends a decryption.
Ctr ==
    /\ At("ctr")
    /\ Goes
    /\ data' = CtrOf(call.key, macs.nonce, data)
    /\ UNCHANGED <<call, tag, buf, macs, calls, sealed>>
    /\ IF Last THEN Answer(TRUE, 0) ELSE UNCHANGED answer

MakeTag ==
    /\ At("tag")
    /\ Goes
    /\ tag' = FullTag
    /\ buf' = FALSE
    /\ UNCHANGED <<call, data, macs, calls>>
    /\ Answer(TRUE, 0)
    /\ sealed' = sealed \cup {A!Record(answer')}

\* The buffer is freed, then the tags are compared.
Compare ==
    /\ At("compare")
    /\ buf' = FALSE
    /\ UNCHANGED <<call, data, tag, macs, calls, sealed>>
    /\ IF tag = FullTag /\ ~Last
       THEN Goes /\ UNCHANGED answer
       ELSE step' = 0 /\ Answer(TRUE, IF tag = FullTag THEN 0 ELSE -2)

Next ==
    \/ \E k \in Keys, n \in Nonces, h \in Headers : Encrypt(k, n, h) \/ Decrypt(k, n, h)
    \/ EncryptAgain
    \/ Fails
    \/ Malloc
    \/ Authenticate
    \/ Ctr
    \/ MakeTag
    \/ Compare

Spec == Init /\ [][Next]_vars

-----------------------------------------------------------------------------
\* The calls keep the promise of authenticated encryption, also when the nonce,
\* the header and the data have the same bytes and whatever fails on the way
\* (aes_128_eax_encrypt, aes_128_eax_decrypt).
ImplementsAead == A!Spec

\* What is in the caller's buffer after a call.  A decryption that does not
\* answer 0 has changed nothing.  An encryption that fails leaves the data
\* either as it was or completely encrypted, when it was the MAC of the data
\* that failed: who tries again then gets a tag for his own plaintext.
BufferAsAnswered ==
    step = 0 /\ calls > 0 =>
        LET encrypted == CtrOf(call.key, Omac(call.key, 0, call.nonce), call.in)
        IN  IF answer.ret = 0 THEN data = encrypted
            ELSE \/ data = call.in
                 \/ call.op = "ae" /\ data = encrypted /\ macs.hdr # NoMac

\* The temporary buffer is there while a MAC is computed from it, and every way
\* out of a call has freed it.
BufferFreed ==
    /\ At("nonce") \/ At("hdr") \/ At("data") => buf
    /\ step = 0 => ~buf
=============================================================================
