------------------------------ MODULE AesKernel ------------------------------
(***************************************************************************)
(* The kernels aes_rijndael_encrypt and aes_rijndael_decrypt of src/aes.cl *)
(* and src/aes_vec.cl as the work-items of a device run them: the items of *)
(* a work-group fill the local tables together, meet at a barrier and then *)
(* encrypt a block each, walking the round keys two at a time.             *)
(*                                                                         *)
(* A table entry is either loaded or garbage, and an entry stored by one   *)
(* item is visible to the others of its group from the next barrier on.    *)
(* The cipher state is kept as the round keys that have been added to it,  *)
(* in order, and whether every table entry and round key read on the way   *)
(* was good.  The arithmetic of a round is not modelled here.              *)
(***************************************************************************)
EXTENDS Integers, Sequences

CONSTANTS
    Groups,         \* the work-groups
    LocalSize,      \* work-items of a group, opencl_dim(256) in the host program
    TableSize,      \* entries of a table, 256
    Nr,             \* rounds: 10, 12 or 14
    Variants,       \* the kernels there are: "encrypt" or "decrypt", and AES_KEY_LOCAL,
                    \* whether the round keys are copied to local memory too
    KeyPieces       \* pieces a round key is copied in: 1 (uint4) or 4 (uint)

ASSUME SizeAssumption ==
    /\ LocalSize \in Nat /\ LocalSize >= 1 /\ TableSize = LocalSize
    /\ Nr \in Nat /\ Nr >= 2 /\ Nr % 2 = 0
    /\ KeyPieces \in Nat /\ KeyPieces >= 1
\* An item copies one piece of the round keys at most.
ASSUME KeyAssumption ==
    /\ Variants \subseteq [kernel : {"encrypt", "decrypt"}, keyLocal : BOOLEAN]
    /\ \A v \in Variants : v.keyLocal => KeyPieces * (Nr + 1) <= LocalSize

LocalIds == 0..(LocalSize - 1)
WorkItems == Groups \X LocalIds
Entries == 0..(TableSize - 1)

Group(w) == w[1]
LocalId(w) == w[2]

\* A place in the local memory of the group of w.
Place(w, table, e) == <<Group(w), table, e>>

\* What a group keeps in its local memory.
Tables == {"Te0", "Td0", "Td4s", "rk"}

VARIABLES
    variant,    \* the kernel that has been launched, which nobody writes
    pc,         \* where each item is
    loaded,     \* local memory: <<group, table, index>> that hold their value
    visible,    \* what of it has been made visible by a barrier
    r, rk,      \* rounds left, halved, and the first round key in use
    s, t,       \* the two cipher states a round goes back and forth between
    result      \* the block each item has written, if it has

kernelVars == <<variant, pc, loaded, visible, r, rk, s, t, result>>

Direction == variant.kernel
KeyLocal == variant.keyLocal

\* The tables of the full rounds and of the last one.
RoundTable == IF Direction = "encrypt" THEN "Te0" ELSE "Td0"
LastTable == IF Direction = "encrypt" THEN "Te0" ELSE "Td4s"

\* A cipher state: the round keys added to it, and whether all reads were good.
State == [keys : Seq(0..Nr), good : BOOLEAN]
Nothing == [keys |-> <<>>, good |-> FALSE]

KernelInit ==
    /\ variant \in Variants
    /\ pc = [w \in WorkItems |-> "load"]
    /\ loaded = {} /\ visible = {}
    /\ r = [w \in WorkItems |-> 0] /\ rk = [w \in WorkItems |-> 0]
    /\ s = [w \in WorkItems |-> Nothing] /\ t = [w \in WorkItems |-> Nothing]
    /\ result = [w \in WorkItems |-> Nothing]

Goto(w, l) == pc' = [pc EXCEPT ![w] = l]

-----------------------------------------------------------------------------
\* What an item copies to its place of the local tables.  The decrypt kernel
\* copies Td4s_local to itself: the entry keeps what it had.
Copies(w) ==
    IF Direction = "encrypt"
    THEN {Place(w, "Te0", LocalId(w))}
    ELSE {Place(w, "Td0", LocalId(w))} \cup ({Place(w, "Td4s", LocalId(w))} \cap loaded)

LoadTables(w) ==
    /\ pc[w] = "load"
    /\ loaded' = loaded \cup Copies(w)
    /\ Goto(w, IF Direction = "encrypt" THEN "key" ELSE "fence")
    /\ UNCHANGED <<visible, r, rk, s, t, result>>

LoadKey(w) ==
    /\ pc[w] = "key"
    /\ loaded' = IF KeyLocal /\ LocalId(w) < KeyPieces * (Nr + 1)
                 THEN loaded \cup {Place(w, "rk", LocalId(w))}
                 ELSE loaded
    /\ Goto(w, "barrier")
    /\ UNCHANGED <<visible, r, rk, s, t, result>>

\* Mutant: the barrier lets an item pass as soon as it is there.
Meet_early(g, at, next) ==
    /\ \E w \in WorkItems :
         /\ Group(w) = g /\ pc[w] = at
         /\ pc' = [pc EXCEPT ![w] = next]
    /\ visible' = visible \cup {x \in loaded : x[1] = g}
    /\ UNCHANGED <<loaded, r, rk, s, t, result>>

\* barrier(CLK_LOCAL_MEM_FENCE): nobody leaves before everybody is there, and
\* what the group has stored becomes visible to all of it.
Meet(g, at, next) ==
    /\ \A w \in WorkItems : Group(w) = g => pc[w] = at
    /\ pc' = [w \in WorkItems |-> IF Group(w) = g THEN next ELSE pc[w]]
    /\ visible' = visible \cup {x \in loaded : x[1] = g}
    /\ UNCHANGED <<loaded, r, rk, s, t, result>>

\* The decrypt kernel has a barrier of its own behind the tables.
TableBarrier(g) == Meet(g, "fence", "key")

\* Mutant: the barrier is where only the decrypt kernel has one.
Barrier_fence(g) == Meet(g, "fence", "start")

\* The barrier both kernels have behind the copy of the round keys.
Barrier(g) == Meet(g, "barrier", "start")

-----------------------------------------------------------------------------
\* Round key k can be read: from the constant buffer, or from local memory.
KeyReadable(w, k) ==
    /\ k \in 0..Nr
    /\ KeyLocal => \A q \in (KeyPieces * k)..(KeyPieces * k + KeyPieces - 1) :
                       Place(w, "rk", q) \in visible

AddRoundKey(v, w, k) ==
    [keys |-> Append(v.keys, k), good |-> v.good /\ KeyReadable(w, k)]

\* A round looks up an entry that depends on the data, and adds round key k.
Round(v, w, table, e, k) ==
    AddRoundKey([keys |-> v.keys, good |-> v.good /\ Place(w, table, e) \in visible], w, k)

\* Read the block and add the initial round key.
Start(w) ==
    /\ pc[w] = "start"
    /\ s' = [s EXCEPT ![w] = AddRoundKey([keys |-> <<>>, good |-> TRUE], w, 0)]
    /\ r' = [r EXCEPT ![w] = Nr \div 2]
    /\ rk' = [rk EXCEPT ![w] = 0]
    /\ Goto(w, "odd")
    /\ UNCHANGED <<loaded, visible, t, result>>

\* Mutant: the loop is left a turn early.
OddRound_early(w) ==
    /\ pc[w] = "odd"
    /\ \E e \in Entries :
         t' = [t EXCEPT ![w] = Round(s[w], w, RoundTable, e, rk[w] + 1)]
    /\ rk' = [rk EXCEPT ![w] = @ + 2]
    /\ r' = [r EXCEPT ![w] = @ - 1]
    /\ Goto(w, IF r[w] = 2 THEN "last" ELSE "even")
    /\ UNCHANGED <<loaded, visible, s, result>>

\* ROUND(1,t,s); rk += 8; if (--r == 0) break;
OddRound(w) ==
    /\ pc[w] = "odd"
    /\ \E e \in Entries :
         t' = [t EXCEPT ![w] = Round(s[w], w, RoundTable, e, rk[w] + 1)]
    /\ rk' = [rk EXCEPT ![w] = @ + 2]
    /\ r' = [r EXCEPT ![w] = @ - 1]
    /\ Goto(w, IF r[w] = 1 THEN "last" ELSE "even")
    /\ UNCHANGED <<loaded, visible, s, result>>

\* ROUND(0,s,t);
EvenRound(w) ==
    /\ pc[w] = "even"
    /\ \E e \in Entries :
         s' = [s EXCEPT ![w] = Round(t[w], w, RoundTable, e, rk[w])]
    /\ Goto(w, "odd")
    /\ UNCHANGED <<loaded, visible, r, rk, t, result>>

\* Mutant: the last round is applied to the state before the round before it.
LastRound_s(w) ==
    /\ pc[w] = "last"
    /\ \E e \in Entries :
         result' = [result EXCEPT ![w] = Round(s[w], w, LastTable, e, rk[w])]
    /\ Goto(w, "done")
    /\ UNCHANGED <<loaded, visible, r, rk, s, t>>

\* The last round and the block written.
LastRound(w) ==
    /\ pc[w] = "last"
    /\ \E e \in Entries :
         result' = [result EXCEPT ![w] = Round(t[w], w, LastTable, e, rk[w])]
    /\ Goto(w, "done")
    /\ UNCHANGED <<loaded, visible, r, rk, s, t>>

KernelNext ==
    /\ UNCHANGED variant
    /\ \/ \E w \in WorkItems :
             \/ LoadTables(w)
             \/ LoadKey(w)
             \/ Start(w)
             \/ OddRound(w)
             \/ EvenRound(w)
             \/ LastRound(w)
       \/ \E g \in Groups : TableBarrier(g) \/ Barrier(g)

KernelSpec == KernelInit /\ [][KernelNext]_kernelVars

\* A device that runs a kernel finishes it.
KernelFairSpec == KernelSpec /\ WF_kernelVars(KernelNext)

-----------------------------------------------------------------------------
Before == {"load", "fence", "key", "barrier"}
After == {"start", "odd", "even", "last", "done"}

TypeOK ==
    /\ variant \in Variants
    /\ pc \in [WorkItems -> Before \cup After]
    /\ r \in [WorkItems -> 0..(Nr \div 2)]
    /\ rk \in [WorkItems -> 0..Nr]
    /\ loaded \subseteq Groups \X Tables \X LocalIds
    /\ visible \subseteq loaded
    /\ s \in [WorkItems -> State] /\ t \in [WorkItems -> State] /\ result \in [WorkItems -> State]

\* The round keys the processor's own cipher adds (aes_rijndael_encrypt and
\* aes_rijndael_decrypt of src/aes-internal-enc.c and -dec.c): 0, 1, ..., Nr.
CpuBlock == [keys |-> [k \in 1..(Nr + 1) |-> k - 1], good |-> TRUE]

\* A block an item has written is the block the processor computes: no table
\* entry or round key was read before it was there, and none was left out or
\* used twice (the comparison of testAES, src/aes-opencl-test.cc).
BlockCorrect == \A w \in WorkItems : pc[w] = "done" => result[w] = CpuBlock

\* The blocks of the encrypt kernels are those the processor computes, with the
\* round keys in either memory (aes_rijndael_encrypt of aes.cl and aes_vec.cl).
EncryptIsCpu == Direction = "encrypt" => BlockCorrect

\* No item computes while another of its group is still loading.
LoadedFirst ==
    \A v, w \in WorkItems :
        Group(v) = Group(w) /\ pc[v] \in After => pc[w] \in After

\* The walk stays inside the round keys: the loop is left before it reads
\* behind the last of them.
WalkInside ==
    \A w \in WorkItems :
        /\ pc[w] = "odd" => r[w] > 0 /\ rk[w] + 1 < Nr
        /\ pc[w] = "even" => r[w] > 0 /\ rk[w] < Nr
        /\ pc[w] = "last" => r[w] = 0 /\ rk[w] = Nr

\* Every item finishes: nobody waits for ever at a barrier.
Finishes == <>(\A w \in WorkItems : pc[w] = "done")
=============================================================================
