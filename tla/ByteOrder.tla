----------------------------- MODULE ByteOrder -------------------------------
(***************************************************************************)
(* The byte order helpers of src/aes-common.h: AES_GET_* and AES_PUT_* on  *)
(* any offset of a buffer, the byte swaps, and the conversions between the *)
(* order of the host and a given one.                                      *)
(*                                                                         *)
(* A byte has Base values (256 in the code).  Shifting a value by k bytes  *)
(* to the right divides it by Weight[k], and a mask of a byte is % Base.   *)
(***************************************************************************)
EXTENDS Integers, Sequences

CONSTANTS
    Base,           \* values of a byte, 256 in the code
    MemLen          \* bytes of the buffer

\* The helpers there are, by the bytes they read or write and their order.
Accessors == {<<2, "be">>, <<2, "le">>, <<3, "be">>, <<4, "be">>, <<4, "le">>,
              <<8, "be">>, <<8, "le">>}

\* A byte has more than one value.
Inputs == Base \in Nat \ {0, 1} /\ MemLen \in Nat

\* Base^k, for the shifts and widths there are.
Weight == LET power[k \in 0..8] == IF k = 0 THEN 1 ELSE Base * power[k - 1] IN power

\* The bytes of the integer type a helper takes: 24 bits come in an unsigned int.
TypeBytes(width) == IF width = 3 THEN 4 ELSE width

VARIABLES
    mem,        \* the buffer
    last        \* history: the last AES_PUT_ with its offset and value

vars == <<mem, last>>

Init ==
    /\ mem = [i \in 1..MemLen |-> 0]
    /\ last = [at |-> 0, width |-> 0, order |-> "none", value |-> 0]

\* How far the value is shifted for the i-th byte that is written.
PutShift(width, order, i) == IF order = "be" THEN width - i ELSE i - 1

PutByte(value, shift) == (value \div Weight[shift]) % Base

\* AES_PUT_BE16, AES_PUT_LE16, ... AES_PUT_LE64: bytes above the width are lost.
Bytes(value, width, order) ==
    [i \in 1..width |-> PutByte(value, PutShift(width, order, i))]

Put(accessor, at, value) ==
    LET width == accessor[1]
        order == accessor[2]
        written == Bytes(value, width, order)
    IN  /\ at + width <= MemLen + 1
        /\ mem' = [i \in 1..MemLen |-> IF i \in at..((at + width) - 1)
                                       THEN written[(i - at) + 1]
                                       ELSE mem[i]]
        /\ last' = [at |-> at, width |-> width, order |-> order, value |-> value]

\* The value whose byte with k bytes below it is octet[k].
Joined(octet, width) ==
    LET sum[k \in 0..width] ==
            IF k = 0 THEN 0 ELSE sum[k - 1] + (octet[k - 1] * Weight[k - 1])
    IN  sum[width]

\* Which byte that is read is shifted by k bytes.
GetPlace(width, order, k) == IF order = "be" THEN width - k ELSE k + 1

\* AES_GET_BE16, AES_GET_LE16, ... AES_GET_LE64.
Get(bytes, order) ==
    Joined([k \in 0..(Len(bytes) - 1) |-> bytes[GetPlace(Len(bytes), order, k)]], Len(bytes))

\* Mutant: the two bytes in the middle stay where they are.
SwapFrom_outer(width, k) == IF width > 2 /\ k \in {1, 2} THEN k ELSE width - 1 - k

\* Which byte bswap_16, bswap_32 and bswap_64 move to the place with k bytes below it.
SwapFrom(width, k) == width - 1 - k

Bswap(n, width) == Joined([k \in 0..(width - 1) |-> PutByte(n, SwapFrom(width, k))], width)

\* host_to_be16 ... host_to_le64, and be_to_host16 ... le_to_host64, which are
\* the same macros: on a host of the other order the bytes are swapped.
HostTo(host, order, n, width) == IF host = order THEN n ELSE Bswap(n, width)

Next ==
    \E a \in Accessors, at \in 1..MemLen :
        \E value \in 0..(Weight[TypeBytes(a[1])] - 1) : Put(a, at, value)

Spec == Init /\ [][Next]_vars

------------------------------------------------------------------------------
(* Properties *)

TypeOK ==
    /\ mem \in [1..MemLen -> 0..(Base - 1)]
    /\ last.value \in Nat

\* Whatever was in the buffer, what was put is what is read at the same place,
\* but for the bytes the width has no room for.
PutThenGet ==
    last.width /= 0 =>
        Get(SubSeq(mem, last.at, (last.at + last.width) - 1), last.order)
            = last.value % Weight[last.width]

\* Reading in the other order is reading and swapping, anywhere in the buffer.
OrdersMirror ==
    \A width \in {2, 4, 8} : \A at \in 1..((MemLen - width) + 1) :
        LET bytes == SubSeq(mem, at, (at + width) - 1)
        IN  Get(bytes, "le") = Bswap(Get(bytes, "be"), width)

\* A value that is converted and stored as the host stores it lies in memory as
\* AES_PUT_ would have written it, on a host of either order.
HostsAgree ==
    last.width \in {2, 4, 8} =>
        \A host \in {"be", "le"} :
            Bytes(HostTo(host, last.order, last.value, last.width), last.width, host)
                = Bytes(last.value, last.width, last.order)
==============================================================================
