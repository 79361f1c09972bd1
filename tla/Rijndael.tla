------------------------------ MODULE Rijndael ------------------------------
(***************************************************************************)
(* The AES block cipher of src/aes-internal-enc.c and -dec.c: a context    *)
(* for encryption is made, a block encrypted and the context freed, then a *)
(* context for decryption is made of the same key, the block decrypted and *)
(* the context freed.  One action per turn of a loop or round.             *)
(*                                                                         *)
(* The rounds are those of AES_FULL_UNROLL, as aes.h defines it; the loop  *)
(* in its place is the one of the OpenCL kernels (AesKernel).              *)
(***************************************************************************)
EXTENDS AesTables, Fips197

CONSTANTS
    CipherKeys,     \* keys, of any length
    PlainBlocks     \* blocks, sequences of 16 bytes

ASSUME InputsAssumption ==
    CipherKeys \subseteq Seq(Byte) /\ PlainBlocks \subseteq [1..16 -> Byte]

VARIABLES
    pc,
    key, plain,     \* the arguments
    decrypting,     \* aes_decrypt_init and what follows
    live,           \* contexts allocated
    rk,             \* the words of the context
    base,           \* how many words the local pointer rk has moved
    Nr, i, j,       \* locals of the key set-up
    round,          \* rounds computed
    s,              \* cipher state, s0..s3 or t0..t3
    crypt, out,     \* the block encrypted, and decrypted again
    expanded,       \* history: the schedule for encryption
    trace           \* history: states after each round of the encryption

vars == <<pc, key, plain, decrypting, live, rk, base, Nr, i, j, round, s, crypt, out,
          expanded, trace>>

\* AES_PRIV_SIZE is 61 words, the last of which is at AES_PRIV_NR_POS.
AES_PRIV_NR_POS == 60
Positions == 0..AES_PRIV_NR_POS

\* A word of fresh or cleared memory.
Unset == <<>>
Fresh == [p \in Positions |-> Unset]

NoBlock == <<>>
NoState == [c \in 0..3 |-> ZeroWord]

Init ==
    /\ pc = "idle"
    /\ key \in CipherKeys /\ plain \in PlainBlocks
    /\ decrypting = FALSE
    /\ live = 0
    /\ rk = Fresh
    /\ base = 0 /\ Nr = 0 /\ i = 0 /\ j = 0
    /\ round = 0
    /\ s = NoState
    /\ crypt = NoBlock /\ out = NoBlock
    /\ expanded = Fresh
    /\ trace = <<>>

-----------------------------------------------------------------------------
\* Byte p of the key.  For a key of an unsupported length the code also reads
\* bytes behind it; they end up in a context that is freed unused.
KeyByte(p) == IF p <= Len(key) THEN key[p] ELSE 0
KeyWord(k) == <<KeyByte(4 * k + 1), KeyByte(4 * k + 2), KeyByte(4 * k + 3), KeyByte(4 * k + 4)>>

\* malloc has no memory for the context.
AllocFails ==
    /\ pc = "idle"
    /\ pc' = "failed"
    /\ UNCHANGED <<key, plain, decrypting, live, rk, base, Nr, i, j, round, s, crypt, out,
                   expanded, trace>>

KeyBits == 8 * Len(key)

\* A fresh context, and the words of the key as far as they are copied.
LoadKey ==
    /\ pc = "idle"
    /\ live' = live + 1
    /\ LET words == IF KeyBits = 128 THEN 4 ELSE IF KeyBits = 192 THEN 6 ELSE 8
       IN  rk' = [p \in Positions |-> IF p < words THEN KeyWord(p) ELSE Unset]
    /\ pc' = IF KeyBits \in {128, 192, 256} THEN "expand" ELSE "unsupported"
    /\ base' = 0 /\ i' = 0
    /\ UNCHANGED <<key, plain, decrypting, Nr, j, round, s, crypt, out, expanded, trace>>

\* Mutant: a refused key leaves its context behind.
Unsupported_leak ==
    /\ pc = "unsupported"
    /\ pc' = "failed"
    /\ UNCHANGED <<key, plain, decrypting, live, rk, base, Nr, i, j, round, s, crypt, out,
                   expanded, trace>>

\* The key set-up has returned -1: the context is freed.
Unsupported ==
    /\ pc = "unsupported"
    /\ live' = live - 1
    /\ pc' = "failed"
    /\ UNCHANGED <<key, plain, decrypting, rk, base, Nr, i, j, round, s, crypt, out,
                   expanded, trace>>

\* Words to..to+3, the first one given, from the words at from and before to.
Chain(w, from, to, first) ==
    LET w1 == XorWord(w[from + 1], first)
        w2 == XorWord(w[from + 2], w1)
        w3 == XorWord(w[from + 3], w2)
    IN  [w EXCEPT ![to] = first, ![to + 1] = w1, ![to + 2] = w2, ![to + 3] = w3]

\* The first word of turn i of the expansion with nk words a turn.
FirstWord(nk) == Xor4(rk[base], RotSub(rk[base + nk - 1]), RCON(i), ZeroWord)

\* The end of a turn of nk words; after turn last the key is expanded, and
\* aes_rijndael_key_setup_dec goes on with the order of the round keys.
NextTurn(nk, last, rounds) ==
    IF i = last
    THEN /\ Nr' = rounds
         /\ pc' = IF decrypting THEN "invert" ELSE "nr"
         /\ base' = 0 /\ i' = 0 /\ j' = 4 * rounds
    ELSE /\ base' = base + nk /\ i' = i + 1
         /\ UNCHANGED <<pc, Nr, j>>

UnchangedCall == UNCHANGED <<key, plain, decrypting, live, round, s, crypt, out, expanded, trace>>

Expand128 ==
    /\ pc = "expand" /\ KeyBits = 128
    /\ rk' = Chain(rk, base, base + 4, FirstWord(4))
    /\ NextTurn(4, 9, 10)
    /\ UnchangedCall

\* Mutant: the last turn is not left early.
Expand192_full ==
    /\ pc = "expand" /\ KeyBits = 192
    /\ LET w == Chain(rk, base, base + 6, FirstWord(6))
           w10 == XorWord(w[base + 4], w[base + 9])
       IN  rk' = [w EXCEPT ![base + 10] = w10, ![base + 11] = XorWord(w[base + 5], w10)]
    /\ NextTurn(6, 7, 12)
    /\ UnchangedCall

\* The last turn is left behind its first four words.
Expand192 ==
    /\ pc = "expand" /\ KeyBits = 192
    /\ LET w == Chain(rk, base, base + 6, FirstWord(6))
           w10 == XorWord(w[base + 4], w[base + 9])
       IN  rk' = IF i = 7 THEN w
                 ELSE [w EXCEPT ![base + 10] = w10,
                                ![base + 11] = XorWord(w[base + 5], w10)]
    /\ NextTurn(6, 7, 12)
    /\ UnchangedCall

Expand256 ==
    /\ pc = "expand" /\ KeyBits = 256
    /\ LET w == Chain(rk, base, base + 8, FirstWord(8))
       IN  rk' = IF i = 6 THEN w
                 ELSE Chain(w, base + 4, base + 12, XorWord(w[base + 4], Sub(w[base + 11])))
    /\ NextTurn(8, 6, 14)
    /\ UnchangedCall

-----------------------------------------------------------------------------
SwapRoundKeys ==
    [p \in Positions |-> IF p \in i..(i + 3) THEN rk[j + (p - i)]
                         ELSE IF p \in j..(j + 3) THEN rk[i + (p - j)]
                         ELSE rk[p]]

\* Exchange two round keys, from the outside to the middle.
InvertOrder ==
    /\ pc = "invert"
    /\ IF i < j
       THEN rk' = SwapRoundKeys /\ i' = i + 4 /\ j' = j - 4 /\ UNCHANGED pc
       ELSE pc' = "mix" /\ i' = 1 /\ UNCHANGED <<rk, j>>
    /\ UNCHANGED <<base, Nr>>
    /\ UnchangedCall

MixRoundKey(k) ==
    [p \in Positions |-> IF p \in k..(k + 3) THEN InvMix(rk[p]) ELSE rk[p]]

\* The inverse MixColumn of all round keys but the first and the last.
MixKeys ==
    /\ pc = "mix"
    /\ IF i < Nr
       THEN base' = base + 4 /\ rk' = MixRoundKey(base') /\ i' = i + 1 /\ UNCHANGED pc
       ELSE pc' = "nr" /\ UNCHANGED <<base, rk, i>>
    /\ UNCHANGED <<Nr, j>>
    /\ UnchangedCall

\* The number of rounds goes behind the round keys.
StoreNr ==
    /\ pc = "nr"
    /\ rk' = [rk EXCEPT ![AES_PRIV_NR_POS] = <<0, 0, 0, Nr>>]
    /\ expanded' = IF decrypting THEN expanded ELSE rk
    /\ pc' = "start"
    /\ UNCHANGED <<key, plain, decrypting, live, base, Nr, i, j, round, s, crypt, out, trace>>

-----------------------------------------------------------------------------
\* The number of rounds a context was made for.
Rounds == rk[AES_PRIV_NR_POS][4]

\* Column c of a block, and the block of four columns.
GETU32(x, c) == <<x[4 * c + 1], x[4 * c + 2], x[4 * c + 3], x[4 * c + 4]>>
PUTU32(st) == st[0] \o st[1] \o st[2] \o st[3]

AddKey(st, k) == [c \in 0..3 |-> XorWord(st[c], rk[4 * k + c])]

\* Map the block to the cipher state and add the initial round key.
Start ==
    /\ pc = "start"
    /\ s' = AddKey([c \in 0..3 |-> GETU32(IF decrypting THEN crypt ELSE plain, c)], 0)
    /\ round' = 0
    /\ pc' = "rounds"
    /\ trace' = IF decrypting THEN trace ELSE <<s'>>
    /\ UNCHANGED <<key, plain, decrypting, live, rk, base, Nr, i, j, crypt, out, expanded>>

\* Mutant: no more than eleven rounds before the last.
MoreRounds_eleven == round < 9 \/ (Rounds > 10 /\ round < 11)

\* ROUND 1..9, two more for Nr > 10, two more for Nr > 12.
MoreRounds ==
    \/ round < 9
    \/ Rounds > 10 /\ round < 11
    \/ Rounds > 12 /\ round < 13

EncRound ==
    /\ pc = "rounds" /\ ~decrypting /\ MoreRounds
    /\ round' = round + 1
    /\ s' = AddKey([c \in 0..3 |-> Xor4(TE0(s[c]), TE1(s[(c + 1) % 4]),
                                        TE2(s[(c + 2) % 4]), TE3(s[(c + 3) % 4]))], round')
    /\ trace' = Append(trace, s')
    /\ UNCHANGED <<pc, key, plain, decrypting, live, rk, base, Nr, i, j, crypt, out, expanded>>

\* Mutant: the columns in the order of the encryption.
DecRound_order ==
    /\ pc = "rounds" /\ decrypting /\ MoreRounds
    /\ round' = round + 1
    /\ s' = AddKey([c \in 0..3 |-> Xor4(TD0(s[c]), TD1(s[(c + 1) % 4]),
                                        TD2(s[(c + 2) % 4]), TD3(s[(c + 3) % 4]))], round')
    /\ UNCHANGED <<pc, key, plain, decrypting, live, rk, base, Nr, i, j, crypt, out,
                   expanded, trace>>

DecRound ==
    /\ pc = "rounds" /\ decrypting /\ MoreRounds
    /\ round' = round + 1
    /\ s' = AddKey([c \in 0..3 |-> Xor4(TD0(s[c]), TD1(s[(c + 3) % 4]),
                                        TD2(s[(c + 2) % 4]), TD3(s[(c + 1) % 4]))], round')
    /\ UNCHANGED <<pc, key, plain, decrypting, live, rk, base, Nr, i, j, crypt, out,
                   expanded, trace>>

EncLast ==
    /\ pc = "rounds" /\ ~decrypting /\ ~MoreRounds
    /\ s' = AddKey([c \in 0..3 |-> LastEnc(s[c], s[(c + 1) % 4],
                                           s[(c + 2) % 4], s[(c + 3) % 4])], Rounds)
    /\ crypt' = PUTU32(s')
    /\ pc' = "deinit"
    /\ UNCHANGED <<key, plain, decrypting, live, rk, base, Nr, i, j, round, out,
                   expanded, trace>>

DecLast ==
    /\ pc = "rounds" /\ decrypting /\ ~MoreRounds
    /\ s' = AddKey([c \in 0..3 |-> LastDec(s[c], s[(c + 3) % 4],
                                           s[(c + 2) % 4], s[(c + 1) % 4])], Rounds)
    /\ out' = PUTU32(s')
    /\ pc' = "deinit"
    /\ UNCHANGED <<key, plain, decrypting, live, rk, base, Nr, i, j, round, crypt,
                   expanded, trace>>

\* The context is cleared and freed.
Deinit ==
    /\ pc = "deinit"
    /\ rk' = Fresh
    /\ live' = live - 1
    /\ pc' = IF decrypting THEN "done" ELSE "idle"
    /\ decrypting' = TRUE
    /\ UNCHANGED <<key, plain, base, Nr, i, j, round, s, crypt, out, expanded, trace>>

Next ==
    \/ AllocFails \/ LoadKey \/ Unsupported
    \/ Expand128 \/ Expand192 \/ Expand256
    \/ InvertOrder \/ MixKeys \/ StoreNr
    \/ Start \/ EncRound \/ DecRound \/ EncLast \/ DecLast
    \/ Deinit

Spec == Init /\ [][Next]_vars

-----------------------------------------------------------------------------
Preparing == {"expand", "unsupported", "invert", "mix", "nr"}
Using == {"start", "rounds", "deinit"}

\* A context for encryption holds the key expansion of the definition and the
\* number of rounds, and nothing between them: no turn of the unrolled loops is
\* left out, none goes too far (aes_rijndael_key_setup_enc, aes_encrypt_init).
ExpansionIsStandard ==
    pc \in Using /\ ~decrypting =>
        /\ Rounds = Len(key) \div 4 + 6
        /\ IsExpansion(rk, key, Len(key) \div 4, Rounds)
        /\ \A p \in (4 * Rounds + 4)..(AES_PRIV_NR_POS - 1) : rk[p] = Unset

\* A context for decryption holds the same round keys from the last to the
\* first, all but the outer ones such that MixColumn gives the original back
\* (aes_rijndael_key_setup_dec).
InverseExpansion ==
    pc \in Using /\ decrypting =>
        \A k \in 0..Rounds, c \in 0..3 :
            expanded[4 * (Rounds - k) + c] =
                IF k \in {0, Rounds} THEN rk[4 * k + c]
                ELSE MixColumn(rk[4 * k + c])

\* Both key schedules are those of the definition for each length of key.
SchedulesStandard == ExpansionIsStandard /\ InverseExpansion

\* Encryption goes through the states of the definition, round by round, though
\* it looks up tables in place of substituting, shifting and mixing
\* (aes_rijndael_encrypt).
EncryptionIsStandard ==
    /\ \A r \in 2..Len(trace) :
         trace[r] = AddRoundKey(MixColumns(ShiftRows(SubBytes(trace[r - 1]))), expanded, r - 1)
    /\ crypt # NoBlock =>
         [c \in 0..3 |-> GETU32(crypt, c)] =
             AddRoundKey(ShiftRows(SubBytes(trace[Len(trace)])),
                                  expanded, Len(trace))

\* Decryption goes back through the rounds of the encryption, behind round r with
\* the substituted and shifted state that round Nr - r of the encryption has mixed,
\* and ends with the block that was encrypted (aes_rijndael_decrypt, the equivalent
\* inverse cipher).
DecryptionInverts ==
    /\ pc = "rounds" /\ decrypting => s = ShiftRows(SubBytes(trace[Rounds - round]))
    /\ pc = "done" => out = plain

\* A context is live exactly while it is prepared or used; no refused key and
\* no end of a call leaves one behind (aes_encrypt_init, aes_decrypt_init).
ContextBalanced == live = IF pc \in Preparing \cup Using THEN 1 ELSE 0
=============================================================================
