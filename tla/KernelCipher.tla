---------------------------- MODULE KernelCipher ----------------------------
(***************************************************************************)
(* What one work-item of the kernels of src/aes.cl and src/aes_vec.cl      *)
(* computes, next to the processor: the context that Rijndael has made is  *)
(* written to the device, the kernel takes its block there, and then the   *)
(* processor takes the same block (testAES of src/aes-opencl-test.cc).     *)
(* Which items share what, and where they wait, is the subject of          *)
(* AesKernel; this module has the bytes.                                   *)
(*                                                                         *)
(* The device is little-endian, as the kernels take it to be.              *)
(***************************************************************************)
EXTENDS Rijndael

CONSTANT
    TableKinds  \* of "local" and "small" (AES_SMALL_TABLES_LOCAL,
                \* AES_SMALL_TABLES) and "large" (neither)

VARIABLES
    tables,     \* how the kernel is compiled
    kpc,
    rkbuf,      \* the device's copy of the context
    NrArg,      \* the argument Nr
    walk,       \* how many words the kernel's rk has moved
    r,          \* turns left
    ks, kt,     \* the item's s0..s3 and t0..t3
    kout        \* the block it writes

kvars == <<tables, kpc, rkbuf, NrArg, walk, r, ks, kt, kout>>

KInit ==
    /\ Init
    /\ tables \in TableKinds
    /\ kpc = "idle"
    /\ rkbuf = Fresh /\ NrArg = 0 /\ walk = 0 /\ r = 0
    /\ ks = NoState /\ kt = NoState
    /\ kout = NoBlock

-----------------------------------------------------------------------------
\* The bytes of a uint on a little-endian device, and back.
as_uchar4(v) == [x |-> v[4], y |-> v[3], z |-> v[2], w |-> v[1]]
as_uint(u) == <<u.w, u.z, u.y, u.x>>

uint_uchar_1(v) == as_uchar4(v).w
uint_uchar_2(v) == as_uchar4(v).z
uint_uchar_3(v) == as_uchar4(v).y
uint_uchar_4(v) == as_uchar4(v).x

\* as_uint(as_uchar4(i).wzyx), or .s3210.
wzyx(u) == [x |-> u.w, y |-> u.z, z |-> u.y, w |-> u.x]
Swapped(v) == as_uint(wzyx(as_uchar4(v)))

\* A uint of global memory, and the bytes that storing one leaves there.
LoadUint(m, p) == as_uint([x |-> m[p + 1], y |-> m[p + 2], z |-> m[p + 3], w |-> m[p + 4]])
Stored(v) == <<as_uchar4(v).x, as_uchar4(v).y, as_uchar4(v).z, as_uchar4(v).w>>

\* Mutant: rotation in the other direction.
rotate_right(v, n) == [k \in 1..4 |-> v[((k - 1 - n) % 4) + 1]]

\* rotate of OpenCL, to the left, by n bytes.
rotate(v, n) == [k \in 1..4 |-> v[((k - 1 + n) % 4) + 1]]

\* The kernel's own tables have the entries of the processor's.
KTe0 == Te0
KTe1 == Te1
KTe2 == Te2
KTe3 == Te3
KTe4 == Te4
KTd0 == Td0
KTd1 == Td1
KTd2 == Td2
KTd3 == Td3
KTd4 == Td4
KTd4s == Si

Rotated == tables # "large"

KTE(n, v) ==
    CASE n = 0 -> KTe0[uint_uchar_1(v)]
      [] n = 1 -> IF Rotated THEN rotate(KTe0[uint_uchar_2(v)], 3) ELSE KTe1[uint_uchar_2(v)]
      [] n = 2 -> IF Rotated THEN rotate(KTe0[uint_uchar_3(v)], 2) ELSE KTe2[uint_uchar_3(v)]
      [] n = 3 -> IF Rotated THEN rotate(KTe0[uint_uchar_4(v)], 1) ELSE KTe3[uint_uchar_4(v)]

KTD(n, v) ==
    CASE n = 0 -> KTd0[uint_uchar_1(v)]
      [] n = 1 -> IF Rotated THEN rotate(KTd0[uint_uchar_2(v)], 3) ELSE KTd1[uint_uchar_2(v)]
      [] n = 2 -> IF Rotated THEN rotate(KTd0[uint_uchar_3(v)], 2) ELSE KTd2[uint_uchar_3(v)]
      [] n = 3 -> IF Rotated THEN rotate(KTd0[uint_uchar_4(v)], 1) ELSE KTd3[uint_uchar_4(v)]

\* TE41(a) ^ TE42(b) ^ TE43(c) ^ TE44(d): byte 2, 2, 3, 3 of entries of Te0.
KLastEnc(a, b, c, d) ==
    IF Rotated
    THEN <<KTe0[uint_uchar_1(a)][2], KTe0[uint_uchar_2(b)][2],
           KTe0[uint_uchar_3(c)][3], KTe0[uint_uchar_4(d)][3]>>
    ELSE <<KTe4[uint_uchar_1(a)][1], KTe4[uint_uchar_2(b)][2],
           KTe4[uint_uchar_3(c)][3], KTe4[uint_uchar_4(d)][4]>>

\* TD41(a) ^ TD42(b) ^ TD43(c) ^ TD44(d).
KLastDec(a, b, c, d) ==
    IF Rotated
    THEN <<KTd4s[uint_uchar_1(a)], KTd4s[uint_uchar_2(b)], KTd4s[uint_uchar_3(c)], KTd4s[uint_uchar_4(d)]>>
    ELSE <<KTd4[uint_uchar_1(a)][1], KTd4[uint_uchar_2(b)][2],
           KTd4[uint_uchar_3(c)][3], KTd4[uint_uchar_4(d)][4]>>

-----------------------------------------------------------------------------
\* The round key n keys on from where the kernel's pointer is.
KAddKey(st, n) == [c \in 0..3 |-> XorWord(st[c], rkbuf[walk + 4 * n + c])]

\* ROUND(n, d, s): what it leaves in d.
KRound(n, st) ==
    KAddKey([c \in 0..3 |->
        IF decrypting
        THEN Xor4(KTD(0, st[c]), KTD(1, st[(c + 3) % 4]), KTD(2, st[(c + 2) % 4]), KTD(3, st[(c + 1) % 4]))
        ELSE Xor4(KTE(0, st[c]), KTE(1, st[(c + 1) % 4]), KTE(2, st[(c + 2) % 4]), KTE(3, st[(c + 3) % 4]))], n)

\* The context and the block are written to the device and Nr is set.  The
\* decrypt kernel computes nothing of use with the local tables (AesKernel).
Enqueue ==
    /\ pc = "start" /\ kpc = "idle"
    /\ decrypting => tables # "local"
    /\ rkbuf' = rk /\ NrArg' = Rounds
    /\ walk' = 0
    /\ kpc' = "read"
    /\ UNCHANGED <<vars, tables, r, ks, kt, kout>>

\* Read the block and add the first round key.
ReadBlock ==
    /\ kpc = "read"
    /\ LET block == IF decrypting THEN crypt ELSE plain
       IN  ks' = KAddKey([c \in 0..3 |-> Swapped(LoadUint(block, 4 * c))], 0)
    /\ r' = NrArg \div 2
    /\ kpc' = "odd"
    /\ UNCHANGED <<vars, tables, rkbuf, NrArg, walk, kt, kout>>

\* ROUND(1,t,s), and the test that leaves the loop in its middle.
KOddRound ==
    /\ kpc = "odd"
    /\ kt' = KRound(1, ks)
    /\ walk' = walk + 8
    /\ r' = r - 1
    /\ kpc' = IF r' = 0 THEN "last" ELSE "even"
    /\ UNCHANGED <<vars, tables, rkbuf, NrArg, ks, kout>>

\* ROUND(0,s,t).
KEvenRound ==
    /\ kpc = "even"
    /\ ks' = KRound(0, kt)
    /\ kpc' = "odd"
    /\ UNCHANGED <<vars, tables, rkbuf, NrArg, walk, r, kt, kout>>

\* The last round, and the block is written.
WriteBlock ==
    /\ kpc = "last"
    /\ LET Last(c) == IF decrypting
                      THEN KLastDec(kt[c], kt[(c + 3) % 4], kt[(c + 2) % 4], kt[(c + 1) % 4])
                      ELSE KLastEnc(kt[c], kt[(c + 1) % 4], kt[(c + 2) % 4], kt[(c + 3) % 4])
           words == KAddKey([c \in 0..3 |-> Last(c)], 0)
       IN  kout' = Stored(Swapped(words[0])) \o Stored(Swapped(words[1]))
                   \o Stored(Swapped(words[2])) \o Stored(Swapped(words[3]))
    /\ kpc' = "done"
    /\ UNCHANGED <<vars, tables, rkbuf, NrArg, walk, r, ks, kt>>

\* The processor goes on once the kernel's block has been read back, and the
\* next call begins with nothing enqueued.
Processor ==
    /\ Next
    /\ pc = "start" => kpc = "done" \/ (decrypting /\ tables = "local")
    /\ kpc' = IF pc = "deinit" THEN "idle" ELSE kpc
    /\ kout' = IF pc = "deinit" THEN NoBlock ELSE kout
    /\ UNCHANGED <<tables, rkbuf, NrArg, walk, r, ks, kt>>

KNext == Enqueue \/ ReadBlock \/ KOddRound \/ KEvenRound \/ WriteBlock \/ Processor

KSpec == KInit /\ [][KNext]_<<vars, kvars>>

-----------------------------------------------------------------------------
\* The kernel writes the block that the processor computes: swapping the bytes
\* on the way in and out, rotating one table instead of keeping four, and
\* taking two rounds a turn change nothing (testAES reports PASS).
KernelAgrees ==
    pc = "deinit" /\ kpc = "done" => kout = IF decrypting THEN out ELSE crypt
=============================================================================
