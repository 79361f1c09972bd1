--------------------------- MODULE OpenclTestProofs ---------------------------
(***************************************************************************)
(* Proofs about main of src/aes-opencl-test.cc, for every number of runs   *)
(* and of work-items, with a driver that may reject or fail any call; and  *)
(* behind them, in a part of its own, about the AES kernels that the       *)
(* program launches, for every number of groups, every group size and      *)
(* every even number of rounds.                                            *)
(***************************************************************************)
EXTENDS OpenclTest, AesKernel, SequenceTheorems, TLAPS

------------------------------------------------------------------------------
(* The inductive invariant of testAES. *)

\* The first instruction of the loop that compares, and the first behind it.
First == 2 * NumRuns + 2
Behind == First + 5 * NumRuns

\* The k-th instruction of a turn of that loop.
Loop(i, k) == i \in First..(Behind - 1) /\ (i - First) % 5 = k

\* The command the runtime gets for an instruction.
Cmd(i) == [op |-> i.op, buf |-> i.buf, run |-> run + 1]

Types ==
    /\ at \in 1..(Len(Program) + 1)
    /\ waiting \in BOOLEAN /\ crashed \in BOOLEAN
    /\ run \in Nat
    /\ computed \subseteq 1..(run + 1)
    /\ verdicts \in Seq({"PASS", "FAIL"}) /\ Len(verdicts) = run

DataTypes ==
    /\ device \in [{"rk", "pt", "ct"} ->
                     [value : {"undef", "zero", "key", "plain", "cipher"}, run : Nat]]
    /\ ct \in [value : {"undef", "zero", "key", "plain", "cipher"}, run : Nat]
    /\ dt \in [value : {"undef", "zero", "key", "plain", "cipher"}, run : Nat]

\* The host lets one kernel, that of a turn, go on behind it, and for no longer
\* than to the read.
QueueShape ==
    IF waiting
    THEN /\ at > 1
         /\ Program[at - 1].op \in {"write", "kernel", "read"}
         /\ \/ queue = <<>>
            \/ queue = <<Cmd(Program[at - 1])>>
            \/ Loop(at - 1, 2) /\ queue = <<Cmd(Kernel(FALSE)), Cmd(Read)>>
    ELSE \/ queue = <<>>
         \/ Loop(at, 2) /\ queue = <<Cmd(Kernel(FALSE))>>

\* Once the first two writes are over, the kernel's inputs are what they are
\* meant to be.
InputsThere ==
    /\ at > 2 \/ (at = 2 /\ queue = <<>>) => device["rk"].value = "key"
    /\ at > 3 \/ (at = 3 /\ queue = <<>>) => device["pt"].value = "plain"

\* A buffer that holds what the newest kernel accepted has computed.
Newest(data) ==
    computed # {} => data.value = "cipher" /\ \A n \in computed : n <= data.run

KernelIsNext == queue # <<>> /\ Head(queue).op = "kernel"

ResultsThere ==
    /\ ~KernelIsNext => Newest(device["ct"])
    /\ Loop(at, 4) \/ (Loop(at, 3) /\ queue = <<>>) => Newest(ct)
    /\ Loop(at, 4) => dt.value = "cipher"

GpuInv ==
    /\ Types
    /\ crashed => at <= Len(Program)
    /\ ~crashed => DataTypes /\ QueueShape /\ InputsThere /\ ResultsThere
    /\ FailMeansNeverRan

------------------------------------------------------------------------------
(* The inductive invariant of testCL. *)

Right(array) == \A i \in 1..Items : array[i] = "right"

AddTypes ==
    /\ addAt \in 1..9
    /\ failed \in BOOLEAN
    /\ running \subseteq 1..Items
    /\ memory \in [Add!Buffers -> [1..Items -> Add!Elements]]

\* What testCL has got to when no call has failed.
AddGood ==
    /\ addAt > 1 => made = Add!Buffers
    /\ addAt > 3 => args = Add!Buffers
    /\ addAt > 4 => Right(memory["a"])
    /\ addAt > 5 => Right(memory["b"])
    /\ addAt > 6 => \A i \in (1..Items) \ running : memory["c"][i] = "right"
    /\ addAt > 7 => Right(c)
    /\ verdict # "Failed"

AddInv ==
    /\ AddTypes
    /\ failed \/ AddGood
    /\ addAt = 8 /\ ~crashed => running = {}
    /\ addAt = 9 => running = {}

\* testAES starts when testCL has returned.
MainInv == GpuInv /\ AddInv /\ (addAt < 9 => at = 1)

------------------------------------------------------------------------------
(* The program of the host. *)

Turn == <<Write("pt", FALSE), Kernel(FALSE), Read, Cpu, Compare>>

\* The instruction at a place of testAES.
At(i) ==
    IF i = 1 THEN Write("rk", TRUE)
    ELSE IF i < First THEN (IF i % 2 = 0 THEN Write("pt", TRUE) ELSE Read)
    ELSE IF i < Behind THEN Turn[((i - First) % 5) + 1]
    ELSE Kernel(TRUE)

\* What Times computes for the bodies that testAES has.
LEMMA TimesIs ==
    ASSUME NEW n \in Nat, NEW S, NEW body \in Seq(S)
    PROVE  /\ Times(n, body) \in Seq(S)
           /\ Len(Times(n, body)) = n * Len(body)
           /\ \A i \in 1..(n * Len(body)) : Times(n, body)[i] = body[((i - 1) % Len(body)) + 1]
<1> DEFINE k == Len(body)
<1>1. k \in Nat /\ n * k \in Nat
  OBVIOUS
<1>2. ASSUME NEW i \in 1..(n * k) PROVE ((i - 1) % k) + 1 \in 1..k
  <2>1. k > 0
    BY <1>1
  <2> QED
    BY <2>1, <1>1
<1>3. \A i \in 1..(n * k) : body[((i - 1) % k) + 1] \in S
  BY <1>2
<1> QED
  BY <1>1, <1>3 DEF Times

\* Two sequences, one behind the other.
LEMMA ConcatIs ==
    ASSUME NEW S, NEW u \in Seq(S), NEW v \in Seq(S)
    PROVE  /\ u \o v \in Seq(S) /\ Len(u \o v) = Len(u) + Len(v)
           /\ \A i \in 1..Len(u) : (u \o v)[i] = u[i]
           /\ \A i \in 1..Len(v) : (u \o v)[i + Len(u)] = v[i]
OBVIOUS

Instructions ==
    {Write("rk", TRUE), Write("pt", TRUE), Write("pt", FALSE), Kernel(TRUE), Kernel(FALSE),
     Read, Cpu, Compare}

\* The program, instruction by instruction.
LEMMA ProgramIs ==
    /\ Len(Program) = Behind + NumRuns - 1
    /\ \A i \in 1..Len(Program) : Program[i] = At(i)
<1> DEFINE n == NumRuns
           filled == <<Write("pt", TRUE), Read>>
           turn == Turn
           last == <<Kernel(TRUE)>>
           A == <<Write("rk", TRUE)>>
           B == Times(n, filled)
           C == Times(n, turn)
           D == Times(n, last)
<1>n. n \in Nat /\ n > 0
  BY RunsAssumption
<1>k. n * 2 \in Nat /\ n * 5 \in Nat /\ 1 + n * 2 \in Nat /\ 1 + n * 2 + n * 5 \in Nat
  BY <1>n
<1>1. filled \in Seq(Instructions) /\ turn \in Seq(Instructions) /\ last \in Seq(Instructions)
      /\ A \in Seq(Instructions)
  BY DEF Instructions, Turn
<1>2. Len(filled) = 2 /\ Len(turn) = 5 /\ Len(last) = 1 /\ Len(A) = 1
  BY DEF Turn
<1> HIDE DEF filled, turn, last, A
<1>3a. /\ B \in Seq(Instructions) /\ Len(B) = n * Len(filled)
       /\ \A i \in 1..(n * Len(filled)) : B[i] = filled[((i - 1) % Len(filled)) + 1]
  BY <1>n, <1>1, TimesIs
<1>4a. /\ C \in Seq(Instructions) /\ Len(C) = n * Len(turn)
       /\ \A i \in 1..(n * Len(turn)) : C[i] = turn[((i - 1) % Len(turn)) + 1]
  BY <1>n, <1>1, TimesIs
<1>5a. /\ D \in Seq(Instructions) /\ Len(D) = n * Len(last)
       /\ \A i \in 1..(n * Len(last)) : D[i] = last[((i - 1) % Len(last)) + 1]
  BY <1>n, <1>1, TimesIs
<1>6. Program = A \o B \o C \o D
  BY DEF Program, A, filled, turn, last, Turn
<1> HIDE DEF B, C, D
<1>3. /\ B \in Seq(Instructions) /\ Len(B) = n * 2
      /\ \A i \in 1..(n * 2) : B[i] = filled[((i - 1) % 2) + 1]
  BY <1>2, <1>3a
<1>4. /\ C \in Seq(Instructions) /\ Len(C) = n * 5
      /\ \A i \in 1..(n * 5) : C[i] = turn[((i - 1) % 5) + 1]
  BY <1>2, <1>4a
<1>5. /\ D \in Seq(Instructions) /\ Len(D) = n
      /\ \A i \in 1..n : D[i] = last[1]
  <2>1. n * Len(last) = n /\ \A i \in 1..n : ((i - 1) % Len(last)) + 1 = 1
    BY <1>2, <1>n
  <2> QED BY <1>5a, <2>1
<1>7. \A i \in 1..n : D[i] = Kernel(TRUE)
  BY <1>5 DEF last
<1>8. \A i \in 1..(n * 2) : B[i] = IF i % 2 = 1 THEN Write("pt", TRUE) ELSE Read
  <2>1. filled[1] = Write("pt", TRUE) /\ filled[2] = Read
    BY DEF filled
  <2>2. \A i \in 1..(n * 2) : ((i - 1) % 2) + 1 = IF i % 2 = 1 THEN 1 ELSE 2
    BY <1>n
  <2> QED BY <1>3, <2>1, <2>2
<1>9. A[1] = Write("rk", TRUE)
  BY DEF A
<1>0. /\ A \in Seq(Instructions) /\ B \in Seq(Instructions)
      /\ C \in Seq(Instructions) /\ D \in Seq(Instructions)
  BY <1>1, <1>3a, <1>4a, <1>5a
<1> DEFINE AB == A \o B
           ABC == AB \o C
<1>10a. /\ AB \in Seq(Instructions) /\ Len(AB) = Len(A) + Len(B)
        /\ \A i \in 1..Len(A) : AB[i] = A[i]
        /\ \A i \in 1..Len(B) : AB[i + Len(A)] = B[i]
  BY <1>0, ConcatIs
<1>ab. AB \in Seq(Instructions)
  BY <1>10a
<1> HIDE DEF AB
<1>10b. /\ ABC \in Seq(Instructions) /\ Len(ABC) = Len(AB) + Len(C)
        /\ \A i \in 1..Len(AB) : ABC[i] = AB[i]
        /\ \A i \in 1..Len(C) : ABC[i + Len(AB)] = C[i]
  BY <1>0, <1>ab, ConcatIs
<1>abc. ABC \in Seq(Instructions)
  BY <1>10b
<1> HIDE DEF ABC
<1>10c. Program = ABC \o D
  BY <1>6 DEF AB, ABC
<1>10d. /\ Program \in Seq(Instructions) /\ Len(Program) = Len(ABC) + Len(D)
        /\ \A i \in 1..Len(ABC) : Program[i] = ABC[i]
        /\ \A i \in 1..Len(D) : Program[i + Len(ABC)] = D[i]
  BY <1>0, <1>abc, <1>10c, ConcatIs
<1>10e. Len(D) = n
  BY <1>5, <1>n
<1>10. /\ Len(AB) = 1 + n * 2 /\ Len(ABC) = 1 + n * 2 + n * 5
       /\ Len(Program) = 1 + n * 2 + n * 5 + n
  BY <1>10a, <1>10b, <1>10d, <1>10e, <1>2, <1>3, <1>4
<1>11. Behind = 2 + n * 2 + n * 5 /\ First = 2 + n * 2
  BY <1>n DEF Behind, First
<1>12. Len(Program) = Behind + NumRuns - 1
  BY <1>10, <1>11, <1>n
<1>13. ASSUME NEW i \in 1..Len(Program) PROVE Program[i] = At(i)
  <2>1. CASE i = 1
    <3>1. i \in 1..Len(A) /\ i \in 1..Len(AB) /\ i \in 1..Len(ABC)
      BY <2>1, <1>2, <1>10, <1>n
    <3>2. Program[i] = A[i]
      BY <3>1, <1>10a, <1>10b, <1>10d
    <3> QED BY <2>1, <3>2, <1>9 DEF At
  <2>2. CASE i > 1 /\ i < First
    <3> DEFINE j == i - 1
    <3>1. /\ j \in 1..(n * 2) /\ j \in 1..Len(B) /\ j + Len(A) = i
          /\ i \in 1..Len(AB) /\ i \in 1..Len(ABC)
          /\ j % 2 = 1 <=> i % 2 = 0
      BY <2>2, <1>2, <1>3, <1>10, <1>11, <1>n
    <3>2. Program[i] = AB[i]
      BY <3>1, <1>10b, <1>10d
    <3> HIDE DEF j
    <3>3. Program[i] = B[j]
      BY <3>1, <3>2, <1>10a
    <3>4. At(i) = IF i % 2 = 0 THEN Write("pt", TRUE) ELSE Read
      <4>1. i # 1
        BY <2>2, <1>10, <1>n, <1>k
      <4> QED BY <4>1, <2>2, Zenon DEF At
    <3> QED BY <3>1, <3>3, <3>4, <1>8
  <2>3. CASE i >= First /\ i < Behind
    <3> DEFINE j == i - (1 + n * 2)
    <3>1. /\ j \in 1..(n * 5) /\ j \in 1..Len(C) /\ j + Len(AB) = i
          /\ i \in 1..Len(ABC) /\ j - 1 = i - First
      BY <2>3, <1>4, <1>10, <1>11, <1>n
    <3> HIDE DEF j
    <3>2. Program[i] = C[j]
      BY <3>1, <1>10b, <1>10d
    <3>3. i # 1 /\ ~(i < First)
      BY <2>3, <1>11, <1>n
    <3>4. Program[i] = turn[((i - First) % 5) + 1]
      BY <3>1, <3>2, <1>4
    <3>5. At(i) = turn[((i - First) % 5) + 1]
      BY <3>3, <2>3 DEF At, turn
    <3> QED BY <3>4, <3>5
  <2>4. CASE i >= Behind
    <3> DEFINE j == i - (1 + n * 2 + n * 5)
    <3>1. j \in 1..n /\ j \in 1..Len(D) /\ j + Len(ABC) = i
      BY <2>4, <1>10, <1>10e, <1>11, <1>n
    <3> HIDE DEF j
    <3>2. Program[i] = D[j]
      BY <3>1, <1>10d
    <3>3. i # 1 /\ ~(i < First) /\ ~(i < Behind)
      BY <2>4, <1>11, <1>n
    <3> QED BY <3>1, <3>2, <3>3, <1>7 DEF At
  <2> QED BY <2>1, <2>2, <2>3, <2>4, <1>11, <1>n
<1> QED BY <1>12, <1>13

\* What the fields of an instruction tell about it.
LEMMA Fields ==
    ASSUME NEW I \in Instructions
    PROVE  /\ I.op \in {"write", "kernel", "read", "cpu", "compare"}
           /\ I.blocks \in BOOLEAN /\ I.waits \in BOOLEAN
           /\ I.op \in {"write", "kernel", "read"} =>
                (~(I.blocks \/ I.waits) <=> I = Kernel(FALSE))
           /\ I.op = "kernel" <=> I \in {Kernel(TRUE), Kernel(FALSE)}
           /\ I.op = "cpu" <=> I = Cpu
           /\ I.op = "compare" <=> I = Compare
           /\ I = Read => I.op = "read" /\ I.blocks /\ I.waits /\ I.buf = "ct"
           /\ I = Write("rk", TRUE) => I.op = "write" /\ I.waits /\ I.buf = "rk"
           /\ I = Write("pt", TRUE) => I.op = "write" /\ I.waits /\ I.buf = "pt"
           /\ I.op = "write" => I.buf \in {"rk", "pt"}
<1> USE DEF Write, Kernel, Read, Cpu, Compare
<1>1. CASE I = Write("rk", TRUE)
  BY <1>1
<1>2. CASE I = Write("pt", TRUE)
  BY <1>2
<1>3. CASE I = Write("pt", FALSE)
  BY <1>3
<1>4. CASE I = Kernel(TRUE)
  BY <1>4
<1>5. CASE I = Kernel(FALSE)
  BY <1>5
<1>6. CASE I = Read
  BY <1>6
<1>7. CASE I = Cpu
  BY <1>7
<1>8. CASE I = Compare
  BY <1>8
<1> QED BY <1>1, <1>2, <1>3, <1>4, <1>5, <1>6, <1>7, <1>8 DEF Instructions

\* What the order of the instructions gives the invariant: what a turn does, and
\* that kernels nobody waits for, the processor's turn and the comparison are
\* found nowhere else.
LEMMA Places ==
    ASSUME NEW i \in 1..Len(Program)
    PROVE  /\ Program[i] \in Instructions
           /\ i = 1 => Program[i] = Write("rk", TRUE)
           /\ i = 2 => Program[i] = Write("pt", TRUE)
           /\ Program[i] = Kernel(FALSE) <=> Loop(i, 1)
           /\ Loop(i, 2) => Program[i] = Read
           /\ Program[i] = Cpu <=> Loop(i, 3)
           /\ Program[i] = Compare <=> Loop(i, 4)
           /\ Program[i] \in {Kernel(TRUE), Kernel(FALSE)} => i > 3
<1> DEFINE k == (i - First) % 5
<1>n. NumRuns \in Nat /\ NumRuns > 0
  BY RunsAssumption
<1>1. First \in Nat /\ First > 3 /\ Behind \in Nat /\ Behind > First /\ i \in Nat /\ i > 0
  BY <1>n, ProgramIs DEF First, Behind
<1>2. Program[i] = At(i)
  BY ProgramIs
<1>3. /\ Turn[1] = Write("pt", FALSE) /\ Turn[2] = Kernel(FALSE) /\ Turn[3] = Read
      /\ Turn[4] = Cpu /\ Turn[5] = Compare
  BY DEF Turn
<1>4. CASE i < First
  <2>1. At(i) \in {Write("rk", TRUE), Write("pt", TRUE), Read}
    BY <1>4, Zenon DEF At
  <2>2. i = 1 => At(i) = Write("rk", TRUE)
    BY DEF At
  <2>3. i = 2 => At(i) = Write("pt", TRUE)
    <3> SUFFICES ASSUME i = 2 PROVE At(i) = Write("pt", TRUE)
      OBVIOUS
    <3>1. i # 1 /\ i % 2 = 0
      OBVIOUS
    <3> QED BY <1>4, <3>1, Zenon DEF At
  <2>4. \A l \in 0..4 : ~Loop(i, l)
    BY <1>1, <1>4 DEF Loop
  <2> HIDE DEF At
  <2> QED BY <1>2, <2>1, <2>2, <2>3, <2>4 DEF Instructions, Write, Read, Kernel, Cpu, Compare
<1>5. CASE First <= i /\ i < Behind
  <2>1. At(i) = Turn[k + 1]
    <3>1. i # 1 /\ ~(i < First)
      BY <1>1, <1>5
    <3> QED BY <3>1, <1>5, Zenon DEF At
  <2>2. k \in 0..4
    BY <1>1
  <2>3. \A l \in 0..4 : Loop(i, l) <=> k = l
    BY <1>1, <1>5 DEF Loop
  <2>4. i > 3
    BY <1>1, <1>5
  <2> HIDE DEF k
  <2>5. CASE k = 0
    BY <1>2, <1>3, <2>1, <2>3, <2>4, <2>5 DEF Instructions, Write, Read, Kernel, Cpu, Compare
  <2>6. CASE k = 1
    BY <1>2, <1>3, <2>1, <2>3, <2>4, <2>6 DEF Instructions, Write, Read, Kernel, Cpu, Compare
  <2>7. CASE k = 2
    BY <1>2, <1>3, <2>1, <2>3, <2>4, <2>7 DEF Instructions, Write, Read, Kernel, Cpu, Compare
  <2>8. CASE k = 3
    BY <1>2, <1>3, <2>1, <2>3, <2>4, <2>8 DEF Instructions, Write, Read, Kernel, Cpu, Compare
  <2>9. CASE k = 4
    BY <1>2, <1>3, <2>1, <2>3, <2>4, <2>9 DEF Instructions, Write, Read, Kernel, Cpu, Compare
  <2>10. k = 0 \/ k = 1 \/ k = 2 \/ k = 3 \/ k = 4
    BY <2>2
  <2> QED BY <2>10, <2>5, <2>6, <2>7, <2>8, <2>9, Zenon
<1>6. CASE Behind <= i
  <2>1. At(i) = Kernel(TRUE)
    <3>1. i # 1 /\ ~(i < First) /\ ~(i < Behind)
      BY <1>1, <1>6
    <3> QED BY <3>1, Zenon DEF At
  <2>2. \A l \in 0..4 : ~Loop(i, l)
    BY <1>1, <1>6 DEF Loop
  <2>3. i > 3
    BY <1>1, <1>6
  <2> QED BY <1>2, <2>1, <2>2, <2>3 DEF Instructions, Write, Read, Kernel, Cpu, Compare
<1>7. i < First \/ (First <= i /\ i < Behind) \/ Behind <= i
  BY <1>1
<1> QED BY <1>7, <1>4, <1>5, <1>6, Zenon

\* The instructions of a turn follow each other.
LEMMA Turns ==
    ASSUME NEW i \in Nat, i > 0
    PROVE  /\ \A k \in 0..3 : Loop(i + 1, k + 1) <=> Loop(i, k)
           /\ \A k \in 0..4 : Loop(i, k) => i > 3 /\ i < Len(Program)
           /\ \A k, l \in 0..4 : Loop(i, k) /\ Loop(i, l) => k = l
<1>1. NumRuns \in Nat /\ NumRuns > 0
  BY RunsAssumption
<1>2. /\ First \in Nat /\ First > 3 /\ Behind \in Nat /\ Behind = First + 5 * NumRuns
      /\ Len(Program) = Behind + NumRuns - 1
  BY <1>1, ProgramIs DEF First, Behind
<1>3. \A k \in 0..3 : Loop(i + 1, k + 1) <=> Loop(i, k)
  BY <1>1, <1>2 DEF Loop
<1>4. \A k \in 0..4 : Loop(i, k) => i > 3 /\ i < Len(Program)
  BY <1>1, <1>2 DEF Loop
<1> QED BY <1>3, <1>4 DEF Loop

------------------------------------------------------------------------------
(* testAES preserves its invariant. *)

\* At the start nothing is enqueued.
LEMMA GpuInit == Init => GpuInv
<1> SUFFICES ASSUME Init PROVE GpuInv
  OBVIOUS
<1> USE DEF Init
<1>1. Len(Program) \in Nat /\ Len(Program) > 7
  BY ProgramIs, RunsAssumption DEF Behind, First
<1>2. Types
  <2>1. at \in 1..(Len(Program) + 1)
    BY <1>1
  <2>2. verdicts \in Seq({"PASS", "FAIL"}) /\ Len(verdicts) = run
    OBVIOUS
  <2>3. /\ waiting \in BOOLEAN /\ crashed \in BOOLEAN
        /\ run \in Nat /\ computed \subseteq 1..(run + 1)
    OBVIOUS
  <2> HIDE DEF Init
  <2> QED BY <2>1, <2>2, <2>3 DEF Types
<1>3. DataTypes
  BY DEF DataTypes, Data
<1>4. QueueShape /\ InputsThere /\ FailMeansNeverRan
  BY DEF QueueShape, InputsThere, FailMeansNeverRan
<1>5. ResultsThere
  <2>1. ~Loop(at, 4) /\ ~Loop(at, 3)
    BY Turns
  <2> QED BY <2>1 DEF ResultsThere, Newest
<1> QED BY <1>1, <1>2, <1>3, <1>4, <1>5 DEF GpuInv

\* A second command behind the first.
LEMMA AppendToOne == ASSUME NEW x, NEW y PROVE Append(<<x>>, y) = <<x, y>>
<1> DEFINE u == <<x>>
           v == <<x, y>>
<1>1. u \in Seq({x, y}) /\ v \in Seq({x, y}) /\ y \in {x, y}
  OBVIOUS
<1>2. Len(u) = 1 /\ u[1] = x /\ Len(v) = 2 /\ v[1] = x /\ v[2] = y
  OBVIOUS
<1> HIDE DEF u, v
<1>3. Append(u, y) \in Seq({x, y}) /\ Len(Append(u, y)) = 2
      /\ Append(u, y)[1] = x /\ Append(u, y)[2] = y
  <2>1. Append(u, y) \in Seq({x, y}) /\ Len(Append(u, y)) = Len(u) + 1
    BY <1>1
  <2>2. \A i \in 1..Len(u) : Append(u, y)[i] = u[i]
    BY <1>1
  <2>3. Append(u, y)[Len(u) + 1] = y
    BY <1>1
  <2>4. 1 \in 1..Len(u) /\ Len(u) + 1 = 2
    BY <1>2
  <2> QED BY <1>2, <2>1, <2>2, <2>3, <2>4
<1>4. Append(u, y) = v
  BY <1>1, <1>2, <1>3
<1> QED BY <1>4 DEF u, v

\* An accepted command comes behind the kernel of its turn or finds the queue empty.
LEMMA GpuAccept == GpuInv /\ Accept => GpuInv'
<1> SUFFICES ASSUME GpuInv, Accept PROVE GpuInv'
  OBVIOUS
<1> DEFINE I == Program[at]
<1>1. /\ Types /\ DataTypes /\ QueueShape /\ InputsThere /\ ResultsThere /\ FailMeansNeverRan
      /\ ~crashed /\ ~waiting /\ at \in 1..Len(Program) /\ Len(Program) \in Nat
  BY DEF GpuInv, Accept, Running, Types
<1>2. /\ queue' = Append(queue, Cmd(I)) /\ waiting' = (I.blocks \/ I.waits)
      /\ computed' = (IF I.op = "kernel" THEN computed \cup {run + 1} ELSE computed)
      /\ I.op \in {"write", "kernel", "read"}
      /\ at' = at + 1
      /\ UNCHANGED <<crashed, device, ct, dt, run, verdicts>>
  BY DEF Accept, Cmd, Now, IsCommand
<1>3. /\ I \in Instructions /\ (I = Kernel(FALSE) <=> Loop(at, 1)) /\ (Loop(at, 2) => I = Read)
      /\ (I = Cpu <=> Loop(at, 3)) /\ (I = Compare <=> Loop(at, 4))
      /\ (at = 1 => I = Write("rk", TRUE)) /\ (at = 2 => I = Write("pt", TRUE))
      /\ (I \in {Kernel(TRUE), Kernel(FALSE)} => at > 3)
  BY <1>1, Places
<1>i. Program[at + 1 - 1] = I /\ at + 1 - 1 = at
  BY <1>1
<1> HIDE DEF I
<1>5. /\ I.blocks \in BOOLEAN /\ I.waits \in BOOLEAN
      /\ (~(I.blocks \/ I.waits) <=> I = Kernel(FALSE))
      /\ (I.op = "kernel" <=> I \in {Kernel(TRUE), Kernel(FALSE)})
      /\ I # Cpu /\ I # Compare
      /\ (I = Read => I.op = "read" /\ I.blocks /\ I.waits /\ I.buf = "ct")
      /\ (at = 1 => I.op = "write" /\ I.waits /\ I.buf = "rk")
      /\ (at = 2 => I.op = "write" /\ I.waits /\ I.buf = "pt")
  <2>1. I.op # "cpu" /\ I.op # "compare"
    BY <1>2
  <2> QED BY <1>2, <1>3, <2>1, Fields
<1>4. /\ (Loop(at + 1, 2) <=> Loop(at, 1)) /\ (Loop(at + 1, 3) <=> Loop(at, 2))
      /\ ~Loop(at + 1, 4)
      /\ (Loop(at, 2) => at > 3)
      /\ ~(Loop(at, 1) /\ Loop(at, 2)) /\ ~Loop(at, 3) /\ ~Loop(at, 4)
  <2>1. at \in Nat /\ at > 0
    BY <1>1
  <2>2. (Loop(at + 1, 2) <=> Loop(at, 1)) /\ (Loop(at + 1, 3) <=> Loop(at, 2))
        /\ (Loop(at + 1, 4) <=> Loop(at, 3))
    BY <2>1, Turns
  <2>3. (Loop(at, 2) => at > 3) /\ ~(Loop(at, 1) /\ Loop(at, 2))
    BY <2>1, Turns
  <2> QED BY <2>2, <2>3, <1>3, <1>5
<1>t. Types'
  <2>1. at' \in 1..(Len(Program) + 1) /\ waiting' \in BOOLEAN /\ crashed' \in BOOLEAN
    BY <1>1, <1>2, <1>5 DEF Types
  <2>2. computed' \subseteq 1..(run + 1)
    BY <1>1, <1>2 DEF Types
  <2> QED BY <2>1, <2>2, <1>1, <1>2 DEF Types
<1>d. DataTypes'
  BY <1>1, <1>2 DEF DataTypes
<1>f. FailMeansNeverRan'
  <2>1. \A n \in 1..Len(verdicts) : computed' \cap (1..n) = computed \cap (1..n)
    BY <1>1, <1>2 DEF Types
  <2> QED BY <2>1, <1>1, <1>2 DEF FailMeansNeverRan
<1>6. CASE queue = <<>>
  <2>1. queue' = <<Cmd(I)>>
    BY <1>2, <1>6
  <2>4. QueueShape'
    <3>1. CASE I = Kernel(FALSE)
      <4>1. Loop(at', 2) /\ ~waiting' /\ queue' = <<Cmd(Kernel(FALSE))>>
        BY <1>2, <1>3, <1>4, <1>5, <2>1, <3>1
      <4> QED BY <4>1, <1>2 DEF QueueShape, Cmd
    <3>2. CASE I # Kernel(FALSE)
      <4>1. waiting' /\ at' > 1 /\ Program[at' - 1] = I
        <5>1. at' - 1 = at /\ at' > 1
          BY <1>1, <1>2
        <5>2. waiting'
          BY <1>2, <1>5, <3>2
        <5> QED BY <5>1, <5>2 DEF I
      <4> QED BY <4>1, <1>2, <2>1 DEF QueueShape, Cmd
    <3> QED BY <3>1, <3>2
  <2>5. InputsThere'
    BY <1>1, <1>2, <1>6, <2>1 DEF InputsThere
  <2>6. ResultsThere'
    <3>1. KernelIsNext' <=> I.op = "kernel"
      BY <2>1 DEF KernelIsNext, Cmd
    <3>2. ~KernelIsNext' => Newest(device["ct"])'
      <4>1. ~KernelIsNext
        BY <1>6 DEF KernelIsNext
      <4> QED BY <4>1, <3>1, <1>1, <1>2 DEF ResultsThere, Newest
    <3>3. ~(Loop(at, 4) \/ (Loop(at, 3) /\ queue = <<>>))'
      BY <1>2, <1>4, <2>1
    <3> QED BY <3>2, <3>3, <1>2, <1>4 DEF ResultsThere
  <2> QED BY <1>t, <1>d, <1>f, <2>4, <2>5, <2>6, <1>1, <1>2 DEF GpuInv
<1>7. CASE Loop(at, 2) /\ queue = <<Cmd(Kernel(FALSE))>>
  <2>1. queue' = <<Cmd(Kernel(FALSE)), Cmd(I)>> /\ I = Read
    <3>1. I = Read
      BY <1>3, <1>7
    <3> DEFINE C == Cmd(Kernel(FALSE))
               D == Cmd(I)
    <3>2. queue = <<C>> /\ queue' = Append(queue, D)
      BY <1>2, <1>7
    <3> HIDE DEF C, D
    <3>3. queue' = <<C, D>>
      BY <3>2, AppendToOne
    <3> QED BY <3>1, <3>3 DEF C, D
  <2>4. QueueShape'
    <3>1. waiting' /\ at' > 1 /\ Program[at' - 1] = I /\ Loop(at' - 1, 2) /\ I.op = "read"
      <4>1. at' - 1 = at /\ at' > 1
        BY <1>1, <1>2
      <4>2. waiting' /\ I.op = "read"
        BY <1>2, <1>5, <2>1
      <4> QED BY <4>1, <4>2, <1>7 DEF I
    <3> QED BY <3>1, <1>2, <2>1 DEF QueueShape, Cmd
  <2>5. InputsThere'
    BY <1>1, <1>2, <1>4, <1>7 DEF InputsThere
  <2>6. ResultsThere'
    <3>1. KernelIsNext' /\ queue' # <<>>
      BY <2>1 DEF KernelIsNext, Cmd, Kernel
    <3> QED BY <1>1, <1>2, <1>4, <3>1 DEF ResultsThere
  <2> QED BY <1>t, <1>d, <1>f, <2>4, <2>5, <2>6, <1>1, <1>2 DEF GpuInv
<1> QED BY <1>1, <1>6, <1>7 DEF QueueShape

\* A rejected command ends the process or leaves the queue as it is.
LEMMA GpuReject == GpuInv /\ Reject => GpuInv'
<1> SUFFICES ASSUME GpuInv, Reject PROVE GpuInv'
  OBVIOUS
<1> DEFINE I == Program[at]
<1>1. /\ Types /\ DataTypes /\ QueueShape /\ InputsThere /\ ResultsThere /\ FailMeansNeverRan
      /\ ~crashed /\ ~waiting /\ at \in 1..Len(Program) /\ Len(Program) \in Nat
  BY DEF GpuInv, Reject, Running, Types
<1>2. /\ I.op \in {"write", "kernel", "read"}
      /\ IF I.waits THEN crashed' = TRUE /\ at' = at ELSE at' = at + 1 /\ crashed' = crashed
      /\ UNCHANGED <<waiting, queue, device, ct, dt, run, computed, verdicts>>
  BY DEF Reject, Now, IsCommand
<1>3. /\ I \in Instructions /\ (I = Kernel(FALSE) <=> Loop(at, 1)) /\ (Loop(at, 2) => I = Read)
      /\ (I = Cpu <=> Loop(at, 3)) /\ (I = Compare <=> Loop(at, 4))
      /\ (at = 1 => I = Write("rk", TRUE)) /\ (at = 2 => I = Write("pt", TRUE))
  BY <1>1, Places
<1> HIDE DEF I
<1>4. /\ I # Cpu /\ I # Compare
      /\ (I = Read => I.waits) /\ (at = 1 => I.waits) /\ (at = 2 => I.waits)
  <2>1. I.op # "cpu" /\ I.op # "compare"
    BY <1>2
  <2> QED BY <1>3, <2>1, Fields
<1>f. FailMeansNeverRan'
  BY <1>1, <1>2 DEF FailMeansNeverRan
<1>t. Types'
  <2>1. CASE I.waits
    BY <1>1, <1>2, <2>1 DEF Types
  <2>2. CASE ~I.waits
    <3>1. at + 1 \in 1..(Len(Program) + 1)
      BY <1>1
    <3> QED BY <1>1, <1>2, <2>2, <3>1 DEF Types
  <2> QED BY <2>1, <2>2
<1>5. CASE I.waits
  BY <1>1, <1>2, <1>5, <1>f, <1>t DEF GpuInv
<1>6. CASE ~I.waits
  <2>1. at' = at + 1 /\ ~crashed' /\ at > 2
    BY <1>1, <1>2, <1>4, <1>6
  <2>2. ~Loop(at, 2) /\ ~Loop(at, 3) /\ ~Loop(at, 4)
    BY <1>3, <1>4, <1>6
  <2>3. ~Loop(at + 1, 3) /\ ~Loop(at + 1, 4)
    <3>1. (Loop(at + 1, 3) <=> Loop(at, 2)) /\ (Loop(at + 1, 4) <=> Loop(at, 3))
      BY <1>1, Turns
    <3> QED BY <3>1, <2>2
  <2>4. queue = <<>>
    BY <1>1, <2>2 DEF QueueShape
  <2>5. DataTypes' /\ QueueShape'
    BY <1>1, <1>2, <2>4 DEF DataTypes, QueueShape
  <2>6. InputsThere'
    <3>1. at' > 3 \/ (at' = 3 /\ queue' = <<>>) => at > 3 \/ (at = 3 /\ queue = <<>>)
      BY <1>1, <2>1, <2>4
    <3> QED BY <1>1, <1>2, <2>1, <2>4, <3>1 DEF InputsThere
  <2>7. ResultsThere'
    BY <1>1, <1>2, <2>1, <2>3 DEF ResultsThere, Newest, KernelIsNext
  <2> QED BY <1>f, <1>t, <2>1, <2>5, <2>6, <2>7 DEF GpuInv
<1> QED BY <1>5, <1>6

\* A wait ends on an empty queue.
LEMMA GpuResume == GpuInv /\ Resume => GpuInv'
<1> SUFFICES ASSUME GpuInv, Resume PROVE GpuInv'
  OBVIOUS
<1> USE DEF Resume
<1>1. Types' /\ FailMeansNeverRan' /\ (crashed' => at' <= Len(Program))
  BY DEF GpuInv, Types, FailMeansNeverRan
<1>2. ASSUME ~crashed' PROVE DataTypes' /\ QueueShape' /\ InputsThere' /\ ResultsThere'
  <2>1. DataTypes /\ InputsThere /\ ResultsThere
    BY <1>2 DEF GpuInv
  <2> QED BY <2>1 DEF DataTypes, QueueShape, InputsThere, ResultsThere, Newest, KernelIsNext
<1> QED BY <1>1, <1>2 DEF GpuInv

\* The processor's turn comes when the queue is empty.
LEMMA GpuCpu == GpuInv /\ CpuEncrypt => GpuInv'
<1> SUFFICES ASSUME GpuInv, CpuEncrypt PROVE GpuInv'
  OBVIOUS
<1>1. /\ Types /\ DataTypes /\ QueueShape /\ InputsThere /\ ResultsThere /\ FailMeansNeverRan
      /\ ~crashed /\ ~waiting /\ at \in 1..Len(Program) /\ Len(Program) \in Nat
  BY DEF GpuInv, CpuEncrypt, Running, Types
<1>2. /\ Program[at].op = "cpu" /\ at' = at + 1 /\ dt' = [value |-> "cipher", run |-> run + 1]
      /\ UNCHANGED <<waiting, crashed, queue, device, ct, run, computed, verdicts>>
  BY DEF CpuEncrypt, Now, Data
<1>3. Loop(at, 3)
  <2>1. Program[at] \in Instructions
    BY <1>1, Places
  <2>2. Program[at] = Cpu
    BY <1>2, <2>1, Fields
  <2> QED BY <1>1, <2>2, Places
<1>4. /\ at > 3 /\ at < Len(Program) /\ ~Loop(at, 2) /\ ~Loop(at, 4)
      /\ Loop(at + 1, 4) /\ ~Loop(at + 1, 3)
  <2>1. at \in Nat /\ at > 0
    BY <1>1
  <2>2. Loop(at + 1, 4) /\ at > 3 /\ at < Len(Program)
    BY <2>1, <1>3, Turns
  <2>3. ~Loop(at, 2) /\ ~Loop(at, 4)
    BY <2>1, <1>3, Turns
  <2>4. (Loop(at + 1, 3) <=> Loop(at, 2))
    BY <2>1, Turns
  <2> QED BY <2>2, <2>3, <2>4
<1>5. queue = <<>>
  BY <1>1, <1>4 DEF QueueShape
<1>6. Types' /\ FailMeansNeverRan'
  BY <1>1, <1>2 DEF Types, FailMeansNeverRan
<1>7. DataTypes'
  BY <1>1, <1>2 DEF DataTypes, Types
<1>8. QueueShape' /\ InputsThere'
  BY <1>1, <1>2, <1>4, <1>5 DEF QueueShape, InputsThere
<1>9. ResultsThere'
  BY <1>1, <1>2, <1>3, <1>4, <1>5 DEF ResultsThere, Newest, KernelIsNext
<1> QED BY <1>1, <1>2, <1>6, <1>7, <1>8, <1>9 DEF GpuInv

\* A comparison that fails has been made before any kernel has run.
LEMMA GpuResults == GpuInv /\ CompareResults => GpuInv'
<1> SUFFICES ASSUME GpuInv, CompareResults PROVE GpuInv'
  OBVIOUS
<1> DEFINE line == IF ct.value = dt.value THEN "PASS" ELSE "FAIL"
<1>1. /\ Types /\ DataTypes /\ QueueShape /\ InputsThere /\ ResultsThere /\ FailMeansNeverRan
      /\ ~crashed /\ ~waiting /\ at \in 1..Len(Program) /\ Len(Program) \in Nat
  BY DEF GpuInv, CompareResults, Running, Types
<1>2. /\ Program[at].op = "compare" /\ at' = at + 1 /\ run' = run + 1
      /\ verdicts' = Append(verdicts, line)
      /\ UNCHANGED <<waiting, crashed, queue, device, ct, dt, computed>>
  BY DEF CompareResults, Now
<1>3. Loop(at, 4)
  <2>1. Program[at] \in Instructions
    BY <1>1, Places
  <2>2. Program[at] = Compare
    BY <1>2, <2>1, Fields
  <2> QED BY <1>1, <2>2, Places
<1>4. /\ at > 3 /\ at < Len(Program) /\ ~Loop(at, 2)
      /\ ~Loop(at + 1, 4) /\ ~Loop(at + 1, 3)
  <2>1. at \in Nat /\ at > 0
    BY <1>1
  <2>2. at > 3 /\ at < Len(Program)
    BY <2>1, <1>3, Turns
  <2>3. ~Loop(at, 2) /\ ~Loop(at, 3)
    BY <2>1, <1>3, Turns
  <2>4. (Loop(at + 1, 3) <=> Loop(at, 2)) /\ (Loop(at + 1, 4) <=> Loop(at, 3))
    BY <2>1, Turns
  <2> QED BY <2>2, <2>3, <2>4
<1>5. queue = <<>>
  BY <1>1, <1>4 DEF QueueShape
<1>6. line = "FAIL" => computed = {}
  BY <1>1, <1>3 DEF ResultsThere, Newest
<1>7. line \in {"PASS", "FAIL"}
  OBVIOUS
<1> HIDE DEF line
<1>8. Types'
  <2>1. verdicts' \in Seq({"PASS", "FAIL"}) /\ Len(verdicts') = run'
    BY <1>1, <1>2, <1>7 DEF Types
  <2>2. computed' \subseteq 1..(run' + 1) /\ run' \in Nat
    BY <1>1, <1>2 DEF Types
  <2> QED BY <1>1, <1>2, <2>1, <2>2 DEF Types
<1>9. FailMeansNeverRan'
  <2> SUFFICES ASSUME NEW n \in 1..Len(verdicts'), verdicts'[n] = "FAIL"
               PROVE  computed' \cap (1..n) = {}
    BY DEF FailMeansNeverRan
  <2>1. CASE n \in 1..Len(verdicts)
    <3>1. verdicts'[n] = verdicts[n]
      BY <1>1, <1>2, <1>7, <2>1 DEF Types
    <3> QED BY <1>1, <1>2, <2>1, <3>1 DEF FailMeansNeverRan
  <2>2. CASE n = Len(verdicts) + 1
    <3>1. verdicts'[n] = line
      BY <1>1, <1>2, <1>7, <2>2 DEF Types
    <3> QED BY <1>2, <1>6, <3>1
  <2> QED BY <1>1, <1>2, <1>7, <2>1, <2>2 DEF Types
<1>10. DataTypes' /\ QueueShape' /\ InputsThere'
  BY <1>1, <1>2, <1>4, <1>5 DEF DataTypes, QueueShape, InputsThere
<1>11. ResultsThere'
  BY <1>1, <1>2, <1>4 DEF ResultsThere, Newest, KernelIsNext
<1> QED BY <1>1, <1>2, <1>8, <1>9, <1>10, <1>11 DEF GpuInv

\* The device executes the first command, and finds what it needs.
LEMMA GpuDevice == GpuInv /\ Device => GpuInv'
<1> SUFFICES ASSUME GpuInv, Device PROVE GpuInv'
  OBVIOUS
<1> DEFINE k == Head(queue)
<1>1. /\ Types /\ FailMeansNeverRan /\ (crashed => at <= Len(Program)) /\ Len(Program) \in Nat
  BY ProgramIs, RunsAssumption DEF GpuInv, Behind, First
<1>2. /\ queue # <<>> /\ queue' = Tail(queue)
      /\ UNCHANGED <<at, waiting, crashed, dt, run, computed, verdicts>>
  BY DEF Device
<1>3. k.op = "write" => device' = [device EXCEPT ![k.buf] = HostData(k.buf)] /\ ct' = ct
  BY DEF Device
<1>4. k.op = "kernel" =>
        /\ device' = [device EXCEPT !["ct"] =
                         IF device["rk"].value = "key" /\ device["pt"].value = "plain"
                         THEN Data("cipher", k.run) ELSE Data("undef", k.run)]
        /\ ct' = ct
  BY DEF Device
<1>5. k.op = "read" => ct' = device["ct"] /\ device' = device
  BY DEF Device
<1>6. Types' /\ FailMeansNeverRan' /\ (crashed' => at' <= Len(Program))
  BY <1>1, <1>2 DEF Types, FailMeansNeverRan
<1>7. ASSUME ~crashed PROVE DataTypes' /\ QueueShape' /\ InputsThere' /\ ResultsThere'
  <2>1. DataTypes /\ QueueShape /\ InputsThere /\ ResultsThere /\ at \in 1..(Len(Program) + 1)
        /\ run \in Nat /\ computed \subseteq 1..(run + 1)
    BY <1>1, <1>7 DEF GpuInv, Types
  <2>w. waiting => \E j \in 1..Len(Program) : at = j + 1
    <3> SUFFICES ASSUME waiting PROVE at - 1 \in 1..Len(Program) /\ at = (at - 1) + 1
      OBVIOUS
    <3> QED BY <1>1, <2>1 DEF QueueShape
  <2>e. \A x : Tail(<<x>>) = <<>> /\ Head(<<x>>) = x
    OBVIOUS
  \* A command the host waits for, alone in the queue.
  <2>2. CASE waiting /\ queue = <<Cmd(Program[at - 1])>>
    <3>j. PICK j \in 1..Len(Program) : at = j + 1
      BY <2>2, <2>w
    <3>a. j = at - 1 /\ j \in Nat /\ j > 0
      BY <3>j, <1>1
    <3> DEFINE I == Program[j]
    <3>1. I.op \in {"write", "kernel", "read"} /\ at > 1
      BY <2>1, <2>2, <3>a DEF QueueShape
    <3>2. /\ I \in Instructions /\ (j = 1 => I = Write("rk", TRUE))
          /\ (j = 2 => I = Write("pt", TRUE))
          /\ (I \in {Kernel(TRUE), Kernel(FALSE)} => j > 3)
          /\ (I = Kernel(FALSE) <=> Loop(j, 1))
          /\ (Loop(j, 2) => I = Read)
          /\ (I = Cpu <=> Loop(j, 3))
      BY Places
    <3>3. /\ (I.op = "kernel" <=> I \in {Kernel(TRUE), Kernel(FALSE)})
          /\ (I = Write("rk", TRUE) => I.op = "write" /\ I.buf = "rk")
          /\ (I = Write("pt", TRUE) => I.op = "write" /\ I.buf = "pt")
          /\ (I.op = "write" => I.buf \in {"rk", "pt"})
          /\ (I = Read => I.op = "read")
          /\ I # Cpu
      <4>1. I.op # "cpu"
        BY <3>1
      <4> HIDE DEF I
      <4> QED BY <3>2, <4>1, Fields
    <3>4. (Loop(at, 3) <=> Loop(j, 2)) /\ (Loop(at, 4) <=> Loop(j, 3))
      <4>1. (Loop(j + 1, 3) <=> Loop(j, 2)) /\ (Loop(j + 1, 4) <=> Loop(j, 3))
        <5>1. j \in Nat /\ j > 0
          BY <3>a
        <5> QED BY <5>1, Turns
      <4> QED BY <4>1, <3>j
    <3>b. Program[at - 1] = I
      BY <3>a
    <3> HIDE DEF I
    <3>5. queue' = <<>> /\ k.op = I.op /\ k.buf = I.buf /\ k.run = run + 1
      BY <1>2, <2>2, <2>e, <3>b DEF Cmd
    <3> HIDE DEF k
    <3>6. ~Loop(at, 4)
      BY <3>2, <3>3, <3>4
    <3>7. QueueShape'
      <4>1. waiting' /\ at' > 1 /\ Program[at' - 1].op \in {"write", "kernel", "read"}
        BY <1>2, <2>2, <3>1, <3>b
      <4> QED BY <4>1, <3>5 DEF QueueShape
    <3>8. CASE I.op = "write"
      <4>1. device' = [device EXCEPT ![I.buf] = HostData(I.buf)] /\ ct' = ct
        BY <1>3, <3>5, <3>8
      <4>2. I.buf \in {"rk", "pt"}
        BY <3>3, <3>8
      <4>3. DataTypes'
        BY <4>1, <4>2, <2>1, <1>2 DEF DataTypes, HostData, Data
      <4>4. device'["rk"].value = "key" \/ (device'["rk"] = device["rk"] /\ I.buf = "pt")
        BY <4>1, <4>2, <2>1 DEF DataTypes, HostData, Data
      <4>5. device'["pt"].value = "plain" \/ (device'["pt"] = device["pt"] /\ I.buf = "rk")
        BY <4>1, <4>2, <2>1 DEF DataTypes, HostData, Data
      <4>6. device'["ct"] = device["ct"]
        BY <4>1, <4>2, <2>1 DEF DataTypes
      <4>7. InputsThere'
        <5>0. (j = 1 => I.buf = "rk") /\ (j = 2 => I.buf = "pt")
          BY <3>2, <3>3
        <5>1. at > 2 \/ (at = 2 /\ I.buf = "rk")
          BY <5>0, <3>j, <3>a
        <5>2. at > 3 \/ (at = 3 /\ I.buf = "pt") \/ at = 2
          BY <5>0, <3>j, <3>a
        <5>3. at > 2 => device["rk"].value = "key"
          BY <2>1 DEF InputsThere
        <5>4. at > 3 => device["pt"].value = "plain"
          BY <2>1 DEF InputsThere
        <5>5. device'["rk"].value = "key"
          BY <4>4, <5>1, <5>3
        <5>6. at # 2 => device'["pt"].value = "plain"
          BY <4>5, <5>2, <5>4
        <5> QED BY <5>5, <5>6, <1>2, <2>1 DEF InputsThere
      <4>8. ~KernelIsNext /\ ~Loop(at, 3)
        <5>1. Head(queue).op = I.op
          BY <3>5 DEF k
        <5>2. I # Read
          BY <3>3, <3>8
        <5> QED BY <5>1, <5>2, <3>2, <3>4, <3>8 DEF KernelIsNext
      <4>9. ResultsThere'
        BY <1>2, <2>1, <3>5, <3>6, <4>1, <4>6, <4>8 DEF ResultsThere, Newest
      <4> QED BY <3>7, <4>3, <4>7, <4>9
    <3>9. CASE I.op = "kernel"
      <4>1. at > 4
        <5>1. j > 3
          BY <3>2, <3>3, <3>9
        <5> QED BY <5>1, <3>j, <3>a
      <4>2. device["rk"].value = "key" /\ device["pt"].value = "plain"
        BY <2>1, <4>1 DEF InputsThere
      <4>3. device' = [device EXCEPT !["ct"] = Data("cipher", run + 1)] /\ ct' = ct
        BY <1>4, <3>5, <3>9, <4>2
      <4>4. DataTypes'
        BY <4>3, <2>1, <1>2 DEF DataTypes, Data
      <4>5. device'["rk"] = device["rk"] /\ device'["pt"] = device["pt"]
            /\ device'["ct"] = [value |-> "cipher", run |-> run + 1]
        BY <4>3, <2>1 DEF DataTypes, Data
      <4>6. InputsThere'
        BY <4>2, <4>5 DEF InputsThere
      <4>7. Newest(device["ct"])'
        BY <4>5, <1>2, <2>1 DEF Newest
      <4>8. ~Loop(at, 3)
        <5>1. I # Read
          BY <3>3, <3>9
        <5> QED BY <5>1, <3>2, <3>4
      <4>9. ResultsThere'
        BY <1>2, <3>6, <4>7, <4>8 DEF ResultsThere
      <4> QED BY <3>7, <4>4, <4>6, <4>9
    <3>10. CASE I.op = "read"
      <4>1. ct' = device["ct"] /\ device' = device
        BY <1>5, <3>5, <3>10
      <4>2. DataTypes'
        BY <4>1, <2>1, <1>2 DEF DataTypes
      <4>3. at > 3
        <5>1. j # 1 /\ j # 2
          BY <3>2, <3>3, <3>10
        <5> QED BY <5>1, <3>j, <3>a
      <4>4. InputsThere'
        BY <1>2, <2>1, <4>1, <4>3 DEF InputsThere
      <4>5. ~KernelIsNext
        <5>1. Head(queue).op = I.op
          BY <3>5 DEF k
        <5> QED BY <5>1, <3>10 DEF KernelIsNext
      <4>6. ResultsThere'
        BY <1>2, <2>1, <3>6, <4>1, <4>5 DEF ResultsThere, Newest
      <4> QED BY <3>7, <4>2, <4>4, <4>6
    <3> QED BY <3>1, <3>8, <3>9, <3>10
  <2> DEFINE K == Cmd(Kernel(FALSE))
  \* The kernel of a turn, before the host has got to the read or behind which it waits.
  <2>3. CASE /\ Head(queue) = K /\ at > 3
             /\ ~Loop(at, 4) /\ (Loop(at, 3) => queue' # <<>>) /\ QueueShape'
    <3>1. k.op = "kernel" /\ k.run = run + 1
      BY <2>3 DEF Cmd, Kernel
    <3>2. device["rk"].value = "key" /\ device["pt"].value = "plain"
      BY <2>1, <2>3 DEF InputsThere
    <3> HIDE DEF k, K
    <3>3. device' = [device EXCEPT !["ct"] = Data("cipher", run + 1)] /\ ct' = ct
      BY <1>4, <3>1, <3>2
    <3>4. DataTypes'
      BY <3>3, <2>1, <1>2 DEF DataTypes, Data
    <3>5. device'["rk"] = device["rk"] /\ device'["pt"] = device["pt"]
          /\ device'["ct"] = [value |-> "cipher", run |-> run + 1]
      BY <3>3, <2>1 DEF DataTypes, Data
    <3>6. InputsThere'
      BY <3>2, <3>5 DEF InputsThere
    <3>7. Newest(device["ct"])'
      BY <3>5, <1>2, <2>1 DEF Newest
    <3>8. ResultsThere'
      BY <1>2, <2>3, <3>7 DEF ResultsThere
    <3> QED BY <2>3, <3>4, <3>6, <3>8
  <2>4. CASE waiting /\ Loop(at - 1, 2) /\ queue = <<K, Cmd(Read)>>
    <3>j. PICK j \in 1..Len(Program) : at = j + 1
      BY <2>4, <2>w
    <3>a. j = at - 1 /\ j \in Nat /\ j > 0 /\ at > 1
      BY <3>j, <1>1
    <3>b. Loop(j, 2)
      BY <2>4, <3>a
    <3>2. at > 3 /\ Program[at - 1] = Read
      <4>1. j > 3
        BY <3>a, <3>b, Turns
      <4>2. Program[j] = Read
        BY <3>b, Places
      <4>3. at > 3
        BY <3>j, <3>a, <4>1
      <4> QED BY <4>2, <4>3, <3>a
    <3>3. ~Loop(at, 4)
      <4>1. Loop(j + 1, 4) <=> Loop(j, 3)
        <5>1. j \in Nat /\ j > 0
          BY <3>a
        <5> QED BY <5>1, Turns
      <4>2. ~Loop(j, 3)
        BY <3>a, <3>b, Turns
      <4> QED BY <3>j, <4>1, <4>2
    <3>4. Head(queue) = K /\ queue' = <<Cmd(Read)>>
      <4> HIDE DEF K
      <4> QED BY <2>4, <1>2
    <3>5. QueueShape'
      BY <1>2, <2>1, <2>4, <3>a, <3>2, <3>4 DEF QueueShape, Cmd
    <3> QED BY <2>3, <3>2, <3>3, <3>4, <3>5
  <2>5. CASE ~waiting /\ Loop(at, 2) /\ queue = <<K>>
    <3>1. at \in Nat /\ at > 0
      BY <2>1
    <3>2. at > 3 /\ ~Loop(at, 3) /\ ~Loop(at, 4)
      BY <2>5, <3>1, Turns
    <3>3. Head(queue) = K /\ queue' = <<>>
      BY <2>5, <1>2, <2>e
    <3>4. QueueShape'
      BY <1>2, <2>5, <3>3 DEF QueueShape
    <3> QED BY <2>3, <3>2, <3>3, <3>4
  <2> QED BY <1>2, <2>1, <2>2, <2>4, <2>5 DEF QueueShape
<1> QED BY <1>2, <1>6, <1>7 DEF GpuInv

\* testAES preserves its invariant.
LEMMA GpuNext == GpuInv /\ [Next]_vars => GpuInv'
<1> SUFFICES ASSUME GpuInv, [Next]_vars PROVE GpuInv'
  OBVIOUS
<1>1. CASE Accept
  BY <1>1, GpuAccept
<1>2. CASE Reject
  BY <1>2, GpuReject
<1>3. CASE Resume
  BY <1>3, GpuResume
<1>4. CASE CpuEncrypt
  BY <1>4, GpuCpu
<1>5. CASE CompareResults
  BY <1>5, GpuResults
<1>6. CASE Device
  BY <1>6, GpuDevice
<1>7. CASE UNCHANGED vars
  BY <1>7 DEF vars, GpuInv, Types, DataTypes, QueueShape, InputsThere, ResultsThere, Newest,
              KernelIsNext, Cmd, FailMeansNeverRan
<1> QED BY <1>1, <1>2, <1>3, <1>4, <1>5, <1>6, <1>7 DEF Next, Host

------------------------------------------------------------------------------
(* testCL preserves its invariant. *)

\* The places of the calls of testCL.
LEMMA Calls ==
    ASSUME addAt \in 1..9, NEW call, Add!Now(call)
    PROVE  /\ addAt \in 1..8 /\ ~crashed
           /\ call = "buffers" => addAt = 1
           /\ call = "kernel of" => addAt = 2
           /\ call = "args" => addAt = 3
           /\ call = "write a" => addAt = 4
           /\ call = "write b" => addAt = 5
           /\ call = "kernel" => addAt = 6
           /\ call = "read" => addAt = 7
           /\ call = "compare" => addAt = 8
<1> DEFINE P == Add!Program
<1>1. /\ Len(P) = 8
      /\ P[1] = "buffers" /\ P[2] = "kernel of" /\ P[3] = "args" /\ P[4] = "write a"
      /\ P[5] = "write b" /\ P[6] = "kernel" /\ P[7] = "read" /\ P[8] = "compare"
  BY DEF Add!Program
<1>2. ~crashed /\ addAt <= Len(P) /\ P[addAt] = call
  BY DEF Add!Now
<1> HIDE DEF P
<1>3. addAt \in 1..8
  <2>1. addAt <= 8
    BY <1>1, <1>2
  <2> QED BY <2>1
<1>4. \/ addAt = 1 \/ addAt = 2 \/ addAt = 3 \/ addAt = 4
      \/ addAt = 5 \/ addAt = 6 \/ addAt = 7 \/ addAt = 8
  BY <1>3
<1> QED BY <1>1, <1>2, <1>3, <1>4

\* testCL has returned behind its last call.
LEMMA Returned == ASSUME addAt \in 1..9 PROVE AddReturned <=> addAt = 9
BY DEF AddReturned, Add!Program

\* At the start nothing has been done.
LEMMA AddInit == Add!Init => AddInv
<1> SUFFICES ASSUME Add!Init PROVE AddInv
  OBVIOUS
<1>1. AddTypes
  <2>1. memory \in [Add!Buffers -> {[i \in 1..Items |-> e] : e \in Add!Elements}]
    BY DEF Add!Init
  <2>2. {[i \in 1..Items |-> e] : e \in Add!Elements} \subseteq [1..Items -> Add!Elements]
    OBVIOUS
  <2>3. memory \in [Add!Buffers -> [1..Items -> Add!Elements]]
    BY <2>1, <2>2
  <2>4. addAt = 1 /\ running = {}
    BY DEF Add!Init
  <2>5. failed \in BOOLEAN
    BY Zenon DEF Add!Init
  <2> QED BY <2>3, <2>4, <2>5 DEF AddTypes
<1>2. AddGood
  BY DEF AddGood, Add!Init
<1> QED BY <1>1, <1>2 DEF AddInv, Add!Init

\* Every call, and every work-item behind it, preserves the invariant.
LEMMA AddNext == AddInv /\ [Add!Next]_(Add!vars) => AddInv'
<1> SUFFICES ASSUME AddInv, [Add!Next]_(Add!vars) PROVE AddInv'
  OBVIOUS
<1>0. /\ addAt \in 1..9 /\ running \subseteq 1..Items /\ failed \in BOOLEAN
      /\ memory \in [Add!Buffers -> [1..Items -> Add!Elements]]
      /\ failed \/ AddGood
      /\ (addAt = 8 /\ ~crashed => running = {}) /\ (addAt = 9 => running = {})
  BY DEF AddInv, AddTypes
<1>1. CASE Add!GetKernel
  <2>1. addAt = 2 /\ ~crashed
    BY <1>0, <1>1, Calls DEF Add!GetKernel
  <2>2. addAt' = 3
    <3>1. addAt' = addAt + 1
      BY <1>1, Zenon DEF Add!GetKernel
    <3> QED BY <2>1, <3>1
  <2>3. failed' \in BOOLEAN /\ (~failed' => ~failed)
    <3>1. failed' = failed \/ failed' = TRUE
      BY <1>1 DEF Add!GetKernel
    <3> QED BY <1>0, <3>1, Zenon
  <2>4. UNCHANGED <<made, args, memory, running, c, verdict>>
    BY <1>1 DEF Add!GetKernel
  <2>5. AddTypes'
    BY <1>0, <2>1, <2>2, <2>3, <2>4 DEF AddTypes
  <2>6. failed' \/ AddGood'
    <3> SUFFICES ASSUME ~failed' PROVE AddGood'
      OBVIOUS
    <3>1. ~failed /\ AddGood
      BY <1>0, <2>3
    <3> QED BY <1>0, <2>1, <2>2, <2>3, <2>4, <3>1 DEF AddGood, Right
  <2> QED BY <1>0, <2>1, <2>2, <2>3, <2>4, <2>5, <2>6 DEF AddInv
<1>2. CASE Add!CreateBuffers
  <2>1. addAt = 1 /\ ~crashed
    BY <1>0, <1>2, Calls DEF Add!CreateBuffers
  <2>2. addAt' = 2
    <3>1. addAt' = addAt + 1
      BY <1>2, Zenon DEF Add!CreateBuffers
    <3> QED BY <2>1, <3>1
  <2>3. failed' \in BOOLEAN /\ (~failed' => ~failed)
    BY <1>0, <1>2, Zenon DEF Add!CreateBuffers
  <2>4. UNCHANGED <<args, memory, running, c, verdict>>
    BY <1>2 DEF Add!CreateBuffers
  <2>5. ~failed' => made' = Add!Buffers
    BY <1>2, Zenon DEF Add!CreateBuffers
  <2>6. AddTypes'
    BY <1>0, <2>1, <2>2, <2>3, <2>4, <2>5 DEF AddTypes
  <2>7. failed' \/ AddGood'
    <3> SUFFICES ASSUME ~failed' PROVE AddGood'
      OBVIOUS
    <3>1. ~failed /\ AddGood
      BY <1>0, <2>3
    <3> QED BY <1>0, <2>1, <2>2, <2>3, <2>4, <2>5, <3>1 DEF AddGood, Right
  <2> QED BY <1>0, <2>1, <2>2, <2>3, <2>4, <2>5, <2>6, <2>7 DEF AddInv
<1>3. CASE Add!SetArgs
  <2>1. addAt = 3 /\ ~crashed
    BY <1>0, <1>3, Calls DEF Add!SetArgs
  <2>2. addAt' = 4
    <3>1. addAt' = addAt + 1
      BY <1>3, Zenon DEF Add!SetArgs
    <3> QED BY <2>1, <3>1
  <2>3. failed' \in BOOLEAN /\ (~failed' => ~failed)
    BY <1>0, <1>3, Zenon DEF Add!SetArgs
  <2>4. UNCHANGED <<made, memory, running, c, verdict>>
    BY <1>3 DEF Add!SetArgs
  <2>5. ~failed' => args' = Add!Buffers
    BY <1>3, Zenon DEF Add!SetArgs
  <2>6. AddTypes'
    BY <1>0, <2>1, <2>2, <2>3, <2>4, <2>5 DEF AddTypes
  <2>7. failed' \/ AddGood'
    <3> SUFFICES ASSUME ~failed' PROVE AddGood'
      OBVIOUS
    <3>1. ~failed /\ AddGood
      BY <1>0, <2>3
    <3> QED BY <1>0, <2>1, <2>2, <2>3, <2>4, <2>5, <3>1 DEF AddGood, Right
  <2> QED BY <1>0, <2>1, <2>2, <2>3, <2>4, <2>5, <2>6, <2>7 DEF AddInv
<1>4. CASE Add!Write("write a", "a")
  <2>1. addAt = 4 /\ ~crashed
    BY <1>0, <1>4, Calls DEF Add!Write
  <2>2. addAt' = 5
    <3>1. addAt' = addAt + 1
      BY <1>4, Zenon DEF Add!Write
    <3> QED BY <2>1, <3>1
  <2>3. failed' \in BOOLEAN /\ (~failed' => ~failed)
    <3>1. failed' = failed \/ failed' = TRUE
      BY <1>4 DEF Add!Write
    <3> QED BY <1>0, <3>1, Zenon
  <2>4. UNCHANGED <<made, args, running, c, verdict>>
    BY <1>4 DEF Add!Write
  <2>5. ~failed' => Right(memory'["a"])
    BY <1>0, <1>4 DEF Add!Write, Right, Add!Buffers
  <2>6. memory' \in [Add!Buffers -> [1..Items -> Add!Elements]]
    BY <1>0, <1>4 DEF Add!Elements, Add!Write
  <2>7. AddTypes'
    BY <1>0, <2>1, <2>2, <2>3, <2>4, <2>5, <2>6 DEF AddTypes
  <2>8. failed' \/ AddGood'
    <3> SUFFICES ASSUME ~failed' PROVE AddGood'
      OBVIOUS
    <3>1. ~failed /\ AddGood
      BY <1>0, <2>3
    <3> QED BY <1>0, <2>1, <2>2, <2>3, <2>4, <2>5, <2>6, <3>1 DEF AddGood, Right
  <2> QED BY <1>0, <2>1, <2>2, <2>3, <2>4, <2>5, <2>6, <2>7, <2>8 DEF AddInv
<1>5. CASE Add!Write("write b", "b")
  <2>1. addAt = 5 /\ ~crashed
    BY <1>0, <1>5, Calls DEF Add!Write
  <2>2. addAt' = 6
    <3>1. addAt' = addAt + 1
      BY <1>5, Zenon DEF Add!Write
    <3> QED BY <2>1, <3>1
  <2>3. failed' \in BOOLEAN /\ (~failed' => ~failed)
    <3>1. failed' = failed \/ failed' = TRUE
      BY <1>5 DEF Add!Write
    <3> QED BY <1>0, <3>1, Zenon
  <2>4. UNCHANGED <<made, args, running, c, verdict>>
    BY <1>5 DEF Add!Write
  <2>5. ~failed' => Right(memory'["b"]) /\ memory'["a"] = memory["a"]
    BY <1>0, <1>5 DEF Add!Write, Right, Add!Buffers
  <2>6. memory' \in [Add!Buffers -> [1..Items -> Add!Elements]]
    BY <1>0, <1>5 DEF Add!Elements, Add!Write
  <2>7. AddTypes'
    BY <1>0, <2>1, <2>2, <2>3, <2>4, <2>5, <2>6 DEF AddTypes
  <2>8. failed' \/ AddGood'
    <3> SUFFICES ASSUME ~failed' PROVE AddGood'
      OBVIOUS
    <3>1. ~failed /\ AddGood
      BY <1>0, <2>3
    <3> QED BY <1>0, <2>1, <2>2, <2>3, <2>4, <2>5, <2>6, <3>1 DEF AddGood, Right
  <2> QED BY <1>0, <2>1, <2>2, <2>3, <2>4, <2>5, <2>6, <2>7, <2>8 DEF AddInv
<1>6. CASE Add!EnqueueKernel
  <2>1. addAt = 6 /\ ~crashed
    BY <1>0, <1>6, Calls DEF Add!EnqueueKernel
  <2>2. addAt' = 7
    <3>1. addAt' = addAt + 1
      BY <1>6, Zenon DEF Add!EnqueueKernel
    <3> QED BY <2>1, <3>1
  <2>3. failed' \in BOOLEAN /\ (~failed' => ~failed)
    <3>1. failed' = failed \/ failed' = TRUE
      BY <1>6 DEF Add!EnqueueKernel
    <3> QED BY <1>0, <3>1, Zenon
  <2>4. UNCHANGED <<made, args, memory, c, verdict>>
    BY <1>6 DEF Add!EnqueueKernel
  <2>5. ~failed' => running' = 1..Items
    BY <1>6 DEF Add!EnqueueKernel
  <2>6. running' \subseteq 1..Items
    BY <1>0, <1>6 DEF Add!EnqueueKernel
  <2>7. AddTypes'
    BY <1>0, <2>1, <2>2, <2>3, <2>4, <2>5, <2>6 DEF AddTypes
  <2>8. failed' \/ AddGood'
    <3> SUFFICES ASSUME ~failed' PROVE AddGood'
      OBVIOUS
    <3>1. ~failed /\ AddGood
      BY <1>0, <2>3
    <3> QED BY <1>0, <2>1, <2>2, <2>3, <2>4, <2>5, <2>6, <3>1 DEF AddGood, Right
  <2> QED BY <1>0, <2>1, <2>2, <2>3, <2>4, <2>5, <2>6, <2>7, <2>8 DEF AddInv
<1>7. CASE Add!Read
  <2>1. addAt = 7 /\ ~crashed
    BY <1>0, <1>7, Calls DEF Add!Read
  <2>2. addAt' = 8
    <3>1. addAt' = addAt + 1
      BY <1>7, Zenon DEF Add!Read
    <3> QED BY <2>1, <3>1
  <2>3. failed' \in BOOLEAN /\ (~failed' => ~failed)
    <3>1. failed' = failed \/ failed' = TRUE
      BY <1>7 DEF Add!Read
    <3> QED BY <1>0, <3>1, Zenon
  <2>4. UNCHANGED <<made, args, memory, running, verdict>>
    BY <1>7 DEF Add!Read
  <2>5. ~failed' => c' = memory["c"] /\ running = {}
    BY <1>7 DEF Add!Read, Add!ReadReady
  <2>6. ~crashed' => running = {}
    BY <1>0, <1>7 DEF Add!Read, Add!ReadReady
  <2>7. AddTypes'
    BY <1>0, <2>1, <2>2, <2>3, <2>4, <2>5, <2>6 DEF AddTypes
  <2>8. failed' \/ AddGood'
    <3> SUFFICES ASSUME ~failed' PROVE AddGood'
      OBVIOUS
    <3>1. ~failed /\ AddGood
      BY <1>0, <2>3
    <3> QED BY <1>0, <2>1, <2>2, <2>3, <2>4, <2>5, <2>6, <3>1 DEF AddGood, Right
  <2> QED BY <1>0, <2>1, <2>2, <2>3, <2>4, <2>5, <2>6, <2>7, <2>8 DEF AddInv
<1>8. CASE Add!Compare
  <2>1. addAt = 8 /\ ~crashed
    BY <1>0, <1>8, Calls DEF Add!Compare
  <2>2. addAt' = 9
    <3>1. addAt' = addAt + 1
      BY <1>8, Zenon DEF Add!Compare
    <3> QED BY <2>1, <3>1
  <2>3. failed' \in BOOLEAN /\ (~failed' => ~failed)
    BY <1>0, <1>8, Zenon DEF Add!Compare
  <2>4. UNCHANGED <<made, args, memory, running, c>>
    BY <1>8 DEF Add!Compare
  <2>5. ~failed' => ~Add!Error /\ verdict' = "Success"
    BY <1>0, <1>8, <2>1, <2>3 DEF Add!Compare, Add!Error, AddGood, Right
  <2>6. AddTypes'
    BY <1>0, <2>1, <2>2, <2>3, <2>4, <2>5 DEF AddTypes
  <2>7. failed' \/ AddGood'
    <3> SUFFICES ASSUME ~failed' PROVE AddGood'
      OBVIOUS
    <3>1. ~failed /\ AddGood
      BY <1>0, <2>3
    <3> QED BY <1>0, <2>1, <2>2, <2>3, <2>4, <2>5, <3>1 DEF AddGood, Right
  <2> QED BY <1>0, <2>1, <2>2, <2>3, <2>4, <2>5, <2>6, <2>7 DEF AddInv
<1>9. ASSUME NEW i \in 1..Items, Add!Add(i) PROVE AddInv'
  <2>1. PICK e \in Add!Sum(i) : memory' = [memory EXCEPT !["c"][i] = e]
    BY <1>9 DEF Add!Add
  <2>2. /\ i \in running /\ running' = running \ {i}
        /\ UNCHANGED <<addAt, made, args, c, crashed, failed, verdict>>
    BY <1>9 DEF Add!Add
  <2>3. e \in Add!Elements
    BY <2>1 DEF Add!Sum, Add!Elements
  <2>4. memory' \in [Add!Buffers -> [1..Items -> Add!Elements]]
    BY <1>0, <2>1, <2>3 DEF Add!Buffers
  <2>5. memory'["a"] = memory["a"] /\ memory'["b"] = memory["b"]
        /\ memory'["c"] = [memory["c"] EXCEPT ![i] = e]
    BY <1>0, <2>1 DEF Add!Buffers
  <2>6. memory["a"][i] = "right" /\ memory["b"][i] = "right" => e = "right"
    BY <2>1 DEF Add!Sum
  <2>7. failed \/ (addAt > 6 => \A j \in (1..Items) \ running' : memory'["c"][j] = "right")
    <3> SUFFICES ASSUME ~failed, addAt > 6, NEW j \in (1..Items) \ running'
                 PROVE  memory'["c"][j] = "right"
      OBVIOUS
    <3>0. AddGood /\ memory["c"] \in [1..Items -> Add!Elements]
      BY <1>0 DEF Add!Buffers
    <3>1. CASE j = i
      <4>1. Right(memory["a"]) /\ Right(memory["b"])
        BY <1>0, <3>0 DEF AddGood
      <4>2. e = "right"
        BY <2>6, <4>1 DEF Right
      <4> QED BY <2>5, <3>0, <3>1, <4>2
    <3>2. CASE j # i
      BY <2>2, <2>5, <3>0, <3>2 DEF AddGood
    <3> QED BY <3>1, <3>2
  <2>8. AddTypes'
    BY <1>0, <2>2, <2>4 DEF AddTypes
  <2>9. failed' \/ AddGood'
    BY <1>0, <2>2, <2>5, <2>7 DEF AddGood, Right
  <2> QED BY <1>0, <2>2, <2>8, <2>9 DEF AddInv
<1>10. CASE UNCHANGED Add!vars
  BY <1>10 DEF Add!vars, AddInv, AddTypes, AddGood, Right
<1> QED BY <1>1, <1>2, <1>3, <1>4, <1>5, <1>6, <1>7, <1>8, <1>9, <1>10 DEF Add!Next

------------------------------------------------------------------------------
(* The whole program. *)

\* main preserves both invariants: testAES begins when testCL has returned.
LEMMA MainInvHolds == MainSpec => []MainInv
<1>1. MainInit => MainInv
  <2> SUFFICES ASSUME MainInit PROVE MainInv
    OBVIOUS
  <2>1. GpuInv /\ AddInv
    BY GpuInit, AddInit DEF MainInit
  <2>2. at = 1
    BY DEF MainInit, Init
  <2> QED BY <2>1, <2>2 DEF MainInv
<1>2. MainInv /\ [MainNext]_mainVars => MainInv'
  <2> SUFFICES ASSUME MainInv, [MainNext]_mainVars PROVE MainInv'
    OBVIOUS
  <2>0. GpuInv /\ AddInv /\ (addAt < 9 => at = 1) /\ addAt \in 1..9
    BY DEF MainInv, AddInv, AddTypes
  <2>1. CASE TestCL
    <3>1. Add!Next /\ UNCHANGED <<at, waiting, queue, device, ct, dt, run, computed, verdicts>>
      BY <2>1 DEF TestCL
    <3>2. AddInv'
      BY <2>0, <3>1, AddNext
    <3>3. addAt' \in 1..9
      BY <3>2 DEF AddInv, AddTypes
    <3>4. CASE addAt = 9
      <4>1. crashed' = crashed /\ addAt' = addAt
        <5>1. PICK i \in 1..Items : Add!Add(i)
          <6>1. \A call : ~Add!Now(call)
            BY <2>0, <3>4, Calls
          <6> QED BY <3>1, <6>1 DEF Add!Next, Add!GetKernel, Add!CreateBuffers, Add!SetArgs,
                     Add!Write, Add!EnqueueKernel, Add!Read, Add!Compare
        <5> QED BY <5>1 DEF Add!Add
      <4>2. UNCHANGED vars
        BY <3>1, <4>1 DEF vars
      <4>3. GpuInv'
        BY <2>0, <4>2, GpuNext
      <4> QED BY <3>2, <3>4, <4>1, <4>3 DEF MainInv
    <3>5. CASE addAt # 9
      <4>1. at = 1 /\ at' = 1
        BY <2>0, <3>1, <3>5
      <4>2. Len(Program) > 7
        BY ProgramIs, RunsAssumption DEF Behind, First
      <4>3. Types' /\ FailMeansNeverRan'
        <5>1. crashed' \in BOOLEAN
          <6>1. crashed' = crashed \/ crashed' = TRUE
            BY <3>1 DEF Add!Next, Add!GetKernel, Add!CreateBuffers, Add!SetArgs,
                     Add!Write, Add!EnqueueKernel, Add!Read, Add!Compare, Add!Add
          <6>2. crashed \in BOOLEAN
            BY <2>0 DEF GpuInv, Types
          <6> QED BY <6>1, <6>2, Zenon
        <5> QED BY <2>0, <3>1, <5>1 DEF GpuInv, Types, FailMeansNeverRan
      <4>4. ASSUME ~crashed' PROVE DataTypes' /\ QueueShape' /\ InputsThere' /\ ResultsThere'
        <5>1. ~crashed
          <6>1. crashed' = crashed \/ crashed' = TRUE
            BY <3>1 DEF Add!Next, Add!GetKernel, Add!CreateBuffers, Add!SetArgs,
                     Add!Write, Add!EnqueueKernel, Add!Read, Add!Compare, Add!Add
          <6> QED BY <4>4, <6>1, Zenon
        <5>2. DataTypes /\ QueueShape /\ InputsThere /\ ResultsThere
          BY <2>0, <5>1 DEF GpuInv
        <5> QED BY <3>1, <5>2 DEF DataTypes, QueueShape, InputsThere, ResultsThere, Newest,
                                  KernelIsNext, Cmd
      <4>5. GpuInv'
        BY <4>1, <4>2, <4>3, <4>4 DEF GpuInv
      <4> QED BY <3>2, <4>1, <4>5 DEF MainInv
    <3> QED BY <3>4, <3>5
  <2>2. CASE TestAES
    <3>1. Next /\ UNCHANGED addVars /\ AddReturned
      BY <2>2 DEF TestAES
    <3>2. GpuInv'
      BY <2>0, <3>1, GpuNext
    <3>3. addAt = 9
      BY <2>0, <3>1, Returned
    <3>4. AddInv'
      BY <2>0, <3>1, <3>3 DEF AddInv, AddTypes, AddGood, Right, addVars
    <3> QED BY <3>1, <3>2, <3>3, <3>4 DEF MainInv, addVars
  <2>3. CASE UNCHANGED mainVars
    <3>1. UNCHANGED vars /\ UNCHANGED addVars
      BY <2>3 DEF mainVars
    <3>2. GpuInv'
      BY <2>0, <3>1, GpuNext
    <3>3. UNCHANGED Add!vars
      BY <3>1 DEF vars, addVars, Add!vars
    <3>4. AddInv'
      BY <2>0, <3>3, AddNext
    <3> QED BY <2>0, <3>1, <3>2, <3>4 DEF MainInv, vars, addVars
  <2> QED BY <2>1, <2>2, <2>3 DEF MainNext
<1> QED BY <1>1, <1>2, PTL DEF MainSpec

\* testAES compares what the newest kernel the runtime accepted has computed,
\* whichever commands it rejects and whenever the device gets to the others.
THEOREM ComparesNewest == MainSpec => []ComparedIsNewest
<1>1. MainInv => ComparedIsNewest
  <2> SUFFICES ASSUME GpuInv, Running, Now.op = "compare", NEW n \in computed
               PROVE  n <= ct.run
    BY DEF MainInv, ComparedIsNewest
  <2>1. ~crashed /\ at \in 1..Len(Program) /\ Program[at].op = "compare"
    BY DEF Running, Now, GpuInv, Types
  <2>2. Program[at] \in Instructions
    BY <2>1, Places
  <2>3. Program[at] = Compare
    BY <2>1, <2>2, Fields
  <2>4. Loop(at, 4)
    BY <2>1, <2>3, Places
  <2>5. Newest(ct)
    BY <2>1, <2>4 DEF GpuInv, ResultsThere
  <2> QED BY <2>5 DEF Newest
<1> QED BY <1>1, MainInvHolds, PTL

\* "FAIL" is logged only of runs before the first kernel: rejected commands, and
\* a device that lags behind, never make a kernel that has run look wrong.
THEOREM FailsWithoutKernel == MainSpec => []FailMeansNeverRan
<1>1. MainInv => FailMeansNeverRan
  BY DEF MainInv, GpuInv
<1> QED BY <1>1, MainInvHolds, PTL

\* "Add Test: Failed" is logged only when a call to the driver has failed, for any
\* number of work-items in any order.
THEOREM AddFails == MainSpec => []FailedMeansFailure
<1>1. MainInv => FailedMeansFailure
  BY DEF MainInv, AddInv, AddGood, FailedMeansFailure, Add!FailedMeansFailure
<1> QED BY <1>1, MainInvHolds, PTL

\* When testCL returns no work-item runs any more and when testAES does no command
\* is left, so that nothing uses the buffers that go then.
THEOREM NothingLeft == MainSpec => []NothingOutlives
<1>1. MainInv => NothingOutlives
  <2> SUFFICES ASSUME GpuInv, AddInv PROVE NothingOutlives
    BY DEF MainInv
  <2>1. AddReturned => running = {}
    BY Returned DEF AddInv, AddTypes
  <2>2. QuietAtEnd
    <3> SUFFICES ASSUME at > Len(Program), ~waiting PROVE queue = <<>>
      BY DEF QuietAtEnd
    <3>1. Len(Program) \in Nat /\ at \in 1..(Len(Program) + 1)
      BY ProgramIs, RunsAssumption DEF Behind, First, GpuInv, Types
    <3>2. QueueShape
      BY <3>1 DEF GpuInv
    <3>3. ~Loop(at, 2)
      <4>1. at \in Nat /\ at > 0 /\ ~(at < Len(Program))
        BY <3>1
      <4> QED BY <4>1, Turns
    <3> QED BY <3>2, <3>3 DEF QueueShape
  <2> QED BY <2>1, <2>2 DEF NothingOutlives
<1> QED BY <1>1, MainInvHolds, PTL

-----------------------------------------------------------------------------
(* The kernels: no item computes before its group has loaded, the walk stays *)
(* inside the round keys, and a block encrypted on the device is the block   *)
(* the processor computes.                                                   *)

\* The round keys 0..n, in order, and a state they have been added to.
Keys(n) == [k \in 1..(n + 1) |-> k - 1]
Clean(n) == [keys |-> Keys(n), good |-> TRUE]

\* Where the walk is: two round keys for each turn of the loop.
WalkInv ==
    \A w \in WorkItems :
        /\ pc[w] \in {"odd", "even"} => r[w] > 0 /\ rk[w] + 2 * r[w] = Nr
        /\ pc[w] = "even" => rk[w] >= 1
        /\ pc[w] = "last" => r[w] = 0 /\ rk[w] = Nr

\* What an item has stored when it has passed a step, and what its group has
\* made visible when it computes.
LoadInv ==
    \A w \in WorkItems :
        /\ pc[w] # "fence"
        /\ pc[w] # "load" => Place(w, "Te0", LocalId(w)) \in loaded
        /\ (pc[w] \in After \cup {"barrier"} /\ KeyLocal /\ LocalId(w) < KeyPieces * (Nr + 1)) =>
              Place(w, "rk", LocalId(w)) \in loaded
        /\ pc[w] \in After =>
              /\ \A e \in Entries : Place(w, "Te0", e) \in visible
              /\ \A k \in 0..Nr : KeyReadable(w, k)

\* What an item has computed.
StateInv ==
    \A w \in WorkItems :
        /\ pc[w] = "odd" => s[w] = Clean(rk[w])
        /\ pc[w] \in {"even", "last"} => t[w] = Clean(rk[w] - 1)
        /\ pc[w] = "done" => result[w] = Clean(Nr)

-----------------------------------------------------------------------------
LEMMA KeysAppend ==
    ASSUME NEW n \in Nat
    PROVE  Append(Keys(n), n + 1) = Keys(n + 1)
<1> DEFINE a == Append(Keys(n), n + 1)
<1>1. Keys(n) \in Seq(Nat) /\ Len(Keys(n)) = n + 1
      /\ \A k \in 1..(n + 1) : Keys(n)[k] = k - 1
  BY DEF Keys
<1>2. /\ a \in Seq(Nat) /\ Len(a) = n + 2
      /\ \A k \in 1..(n + 1) : a[k] = k - 1
      /\ a[n + 2] = n + 1
  <2>1. n + 1 \in Nat
    OBVIOUS
  <2>2. /\ a \in Seq(Nat) /\ Len(a) = Len(Keys(n)) + 1
        /\ \A k \in 1..Len(Keys(n)) : a[k] = Keys(n)[k]
        /\ a[Len(Keys(n)) + 1] = n + 1
    BY <1>1, <2>1, AppendProperties
  <2> HIDE DEF a
  <2> QED BY <1>1, <2>2
<1>3. Keys(n + 1) \in Seq(Nat) /\ Len(Keys(n + 1)) = n + 2
      /\ \A k \in 1..(n + 2) : Keys(n + 1)[k] = k - 1
  BY DEF Keys
<1> HIDE DEF a
<1>4. \A k \in 1..(n + 2) : a[k] = Keys(n + 1)[k]
  BY <1>2, <1>3
<1>5. a = Keys(n + 1)
  BY <1>2, <1>3, <1>4, SeqEqual
<1> QED BY <1>5 DEF a

LEMMA KeysZero == Append(<<>>, 0) = Keys(0)
BY DEF Keys

-----------------------------------------------------------------------------
\* Adding one of the round keys makes a cipher state of a cipher state.
LEMMA RoundType ==
    ASSUME NEW v \in State, NEW w, NEW table, NEW e, NEW k \in 0..Nr
    PROVE  Round(v, w, table, e, k) \in State /\ AddRoundKey(v, w, k) \in State
<1>1. v.keys \in Seq(0..Nr) /\ v.good \in BOOLEAN
  BY DEF State
<1>2. Append(v.keys, k) \in Seq(0..Nr)
  BY <1>1, AppendProperties
<1>3. /\ (v.good /\ KeyReadable(w, k)) \in BOOLEAN
      /\ ((v.good /\ Place(w, table, e) \in visible) /\ KeyReadable(w, k)) \in BOOLEAN
  OBVIOUS
<1> QED BY <1>2, <1>3 DEF State, Round, AddRoundKey

\* Nobody changes the kernel.
LEMMA SameKernel ==
    ASSUME TypeOK, [KernelNext]_kernelVars
    PROVE  /\ variant' = variant /\ Direction' = Direction /\ KeyLocal' = KeyLocal
           /\ KeyLocal \in BOOLEAN /\ Direction \in {"encrypt", "decrypt"}
           /\ KeyLocal => KeyPieces * (Nr + 1) <= LocalSize
           /\ RoundTable' = RoundTable /\ LastTable' = LastTable
BY KeyAssumption DEF KernelNext, kernelVars, TypeOK, Direction, KeyLocal, RoundTable, LastTable

LEMMA InitType == KernelInit => TypeOK /\ LoadedFirst /\ WalkInv
<1>1. Nothing \in State
  BY DEF Nothing, State
<1> QED BY <1>1, SizeAssumption
        DEF KernelInit, TypeOK, LoadedFirst, WalkInv, Before, After, WorkItems

LEMMA NextType == TypeOK /\ WalkInv /\ [KernelNext]_kernelVars => TypeOK'
<1> SUFFICES ASSUME TypeOK, WalkInv, [KernelNext]_kernelVars PROVE TypeOK'
  OBVIOUS
<1> variant' = variant
  BY SameKernel
<1> USE SizeAssumption DEF TypeOK, Before, After, Goto, WorkItems
<1>1. CASE UNCHANGED kernelVars
  BY <1>1 DEF kernelVars
<1>2. ASSUME NEW w \in WorkItems, LoadTables(w) PROVE TypeOK'
  <2>1. \A p \in Tables : Place(w, p, LocalId(w)) \in Groups \X Tables \X LocalIds
    BY DEF Place, Group, LocalId
  <2>2. Copies(w) \subseteq Groups \X Tables \X LocalIds
    BY <2>1 DEF Copies, Tables
  <2>3. loaded' \subseteq Groups \X Tables \X LocalIds /\ visible' \subseteq loaded'
    BY <1>2, <2>2 DEF LoadTables
  <2> QED BY <1>2, <2>3 DEF LoadTables
<1>3. ASSUME NEW w \in WorkItems, LoadKey(w) PROVE TypeOK'
  <2>1. Place(w, "rk", LocalId(w)) \in Groups \X Tables \X LocalIds
    BY DEF Place, Group, LocalId, Tables
  <2>2. loaded' \subseteq Groups \X Tables \X LocalIds /\ visible' \subseteq loaded'
    BY <1>3, <2>1 DEF LoadKey
  <2> QED BY <1>3, <2>2 DEF LoadKey
<1>4. ASSUME NEW w \in WorkItems, Start(w) PROVE TypeOK'
  <2>1. [keys |-> <<>>, good |-> TRUE] \in State /\ 0 \in 0..Nr
    BY DEF State
  <2>2. AddRoundKey([keys |-> <<>>, good |-> TRUE], w, 0) \in State
    BY <2>1, RoundType
  <2> QED BY <1>4, <2>2 DEF Start
<1>5. ASSUME NEW w \in WorkItems, OddRound(w) PROVE TypeOK'
  <2>1. /\ r[w] \in 0..(Nr \div 2) /\ rk[w] \in 0..Nr
        /\ r[w] > 0 /\ rk[w] + 2 * r[w] = Nr
    BY <1>5 DEF OddRound, WalkInv
  <2>2. /\ r[w] - 1 \in 0..(Nr \div 2)
        /\ rk[w] + 1 \in 0..Nr /\ rk[w] + 2 \in 0..Nr
    BY <2>1
  <2>3. t' \in [WorkItems -> State]
    <3>1. s[w] \in State
      OBVIOUS
    <3>2. \A e \in Entries : Round(s[w], w, RoundTable, e, rk[w] + 1) \in State
      BY <2>2, <3>1, RoundType
    <3> QED BY <1>5, <3>2 DEF OddRound
  <2> QED BY <1>5, <2>2, <2>3 DEF OddRound
<1>6. ASSUME NEW w \in WorkItems, EvenRound(w) PROVE TypeOK'
  <2>1. s' \in [WorkItems -> State]
    <3>1. t[w] \in State /\ rk[w] \in 0..Nr
      OBVIOUS
    <3>2. \A e \in Entries : Round(t[w], w, RoundTable, e, rk[w]) \in State
      BY <3>1, RoundType
    <3> QED BY <1>6, <3>2 DEF EvenRound
  <2> QED BY <1>6, <2>1 DEF EvenRound
<1>7. ASSUME NEW w \in WorkItems, LastRound(w) PROVE TypeOK'
  <2>1. result' \in [WorkItems -> State]
    <3>1. t[w] \in State /\ rk[w] \in 0..Nr
      OBVIOUS
    <3>2. \A e \in Entries : Round(t[w], w, LastTable, e, rk[w]) \in State
      BY <3>1, RoundType
    <3> QED BY <1>7, <3>2 DEF LastRound
  <2> QED BY <1>7, <2>1 DEF LastRound
<1>8. ASSUME NEW g \in Groups, TableBarrier(g) \/ Barrier(g) PROVE TypeOK'
  BY <1>8 DEF TableBarrier, Barrier, Meet
<1> QED BY <1>1, <1>2, <1>3, <1>4, <1>5, <1>6, <1>7, <1>8 DEF KernelNext

\* An item cannot fall back, and a group goes on together.
LEMMA NextLoadedFirst == TypeOK /\ LoadedFirst /\ [KernelNext]_kernelVars => LoadedFirst'
<1> SUFFICES ASSUME TypeOK, LoadedFirst, [KernelNext]_kernelVars PROVE LoadedFirst'
  OBVIOUS
<1> USE DEF TypeOK, LoadedFirst, Before, After, Goto
<1>1. CASE UNCHANGED kernelVars
  BY <1>1 DEF kernelVars
<1>2. ASSUME NEW w \in WorkItems, LoadTables(w) \/ LoadKey(w) PROVE LoadedFirst'
  BY <1>2 DEF LoadTables, LoadKey
<1>3. ASSUME NEW w \in WorkItems, Start(w) \/ OddRound(w) \/ EvenRound(w) \/ LastRound(w)
      PROVE  LoadedFirst'
  BY <1>3 DEF Start, OddRound, EvenRound, LastRound
<1>4. ASSUME NEW g \in Groups, TableBarrier(g) \/ Barrier(g) PROVE LoadedFirst'
  BY <1>4 DEF TableBarrier, Barrier, Meet
<1> QED BY <1>1, <1>2, <1>3, <1>4 DEF KernelNext

LEMMA NextWalk == TypeOK /\ WalkInv /\ [KernelNext]_kernelVars => WalkInv'
<1> SUFFICES ASSUME TypeOK, WalkInv, [KernelNext]_kernelVars PROVE WalkInv'
  OBVIOUS
<1> USE SizeAssumption DEF TypeOK, WalkInv, Goto
<1>1. CASE UNCHANGED kernelVars
  BY <1>1 DEF kernelVars
<1>2. ASSUME NEW w \in WorkItems, LoadTables(w) \/ LoadKey(w) PROVE WalkInv'
  BY <1>2 DEF LoadTables, LoadKey
<1>3. ASSUME NEW w \in WorkItems, Start(w) PROVE WalkInv'
  <2>1. Nr \div 2 > 0 /\ 0 + 2 * (Nr \div 2) = Nr
    OBVIOUS
  <2> QED BY <1>3, <2>1 DEF Start
<1>4. ASSUME NEW w \in WorkItems, OddRound(w) PROVE WalkInv'
  <2>1. r[w] \in Nat /\ rk[w] \in Nat /\ r[w] > 0 /\ rk[w] + 2 * r[w] = Nr
    BY <1>4 DEF OddRound
  <2>2. /\ r' = [r EXCEPT ![w] = r[w] - 1] /\ rk' = [rk EXCEPT ![w] = rk[w] + 2]
        /\ pc' = [pc EXCEPT ![w] = IF r[w] = 1 THEN "last" ELSE "even"]
    BY <1>4 DEF OddRound
  <2> QED BY <2>1, <2>2
<1>5. ASSUME NEW w \in WorkItems, EvenRound(w) \/ LastRound(w) PROVE WalkInv'
  BY <1>5 DEF EvenRound, LastRound
<1>6. ASSUME NEW g \in Groups, TableBarrier(g) \/ Barrier(g) PROVE WalkInv'
  BY <1>6 DEF TableBarrier, Barrier, Meet
<1> QED BY <1>1, <1>2, <1>3, <1>4, <1>5, <1>6 DEF KernelNext

-----------------------------------------------------------------------------
LEMMA NextLoad ==
    ASSUME Direction = "encrypt", TypeOK, LoadedFirst, LoadInv, [KernelNext]_kernelVars
    PROVE  LoadInv'
<1>0. /\ Direction' = Direction /\ KeyLocal' = KeyLocal
      /\ KeyLocal => KeyPieces * (Nr + 1) <= LocalSize
  BY SameKernel
<1> USE SizeAssumption, <1>0 DEF TypeOK, LoadInv, Goto, Before, After
<1>1. CASE UNCHANGED kernelVars
  BY <1>1 DEF kernelVars, KeyReadable
<1>2. ASSUME NEW w \in WorkItems, LoadTables(w) PROVE LoadInv'
  <2>1. Place(w, "Te0", LocalId(w)) \in loaded'
    BY <1>2 DEF LoadTables, Copies
  <2> QED BY <1>2, <2>1 DEF LoadTables, KeyReadable
<1>3. ASSUME NEW w \in WorkItems, LoadKey(w) PROVE LoadInv'
  BY <1>3 DEF LoadKey, KeyReadable
<1>4. ASSUME NEW w \in WorkItems, Start(w) \/ OddRound(w) \/ EvenRound(w) \/ LastRound(w)
      PROVE  LoadInv'
  BY <1>4 DEF Start, OddRound, EvenRound, LastRound, KeyReadable
<1>5. ASSUME NEW g \in Groups, Barrier(g) PROVE LoadInv'
  <2>1. ASSUME NEW w \in WorkItems, Group(w) = g
        PROVE  /\ \A e \in Entries : Place(w, "Te0", e) \in visible'
               /\ \A k \in 0..Nr : KeyReadable(w, k)'
    <3>1. ASSUME NEW e \in LocalIds
          PROVE  /\ <<g, e>> \in WorkItems /\ pc[<<g, e>>] = "barrier"
                 /\ LocalId(<<g, e>>) = e
                 /\ \A p : Place(<<g, e>>, p, e) = Place(w, p, e)
                 /\ \A p : Place(w, p, e)[1] = g
      BY <1>5, <2>1 DEF Barrier, Meet, WorkItems, Group, LocalId, Place
    <3>2. \A e \in LocalIds : Place(w, "Te0", e) \in visible'
      BY <1>5, <3>1 DEF Barrier, Meet
    <3>3. ASSUME KeyLocal, NEW q \in 0..(KeyPieces * (Nr + 1) - 1)
          PROVE  Place(w, "rk", q) \in visible'
      <4>1. q \in LocalIds /\ q < KeyPieces * (Nr + 1)
        BY <3>3 DEF LocalIds
      <4> DEFINE x == <<g, q>>
      <4>2. /\ x \in WorkItems /\ pc[x] = "barrier" /\ LocalId(x) = q
            /\ Place(x, "rk", q) = Place(w, "rk", q) /\ Place(w, "rk", q)[1] = g
        BY <3>1, <4>1
      <4> HIDE DEF x
      <4>3. Place(x, "rk", LocalId(x)) \in loaded
        BY <3>3, <4>1, <4>2
      <4> QED BY <1>5, <4>2, <4>3 DEF Barrier, Meet
    <3>4. ASSUME NEW k \in 0..Nr PROVE KeyReadable(w, k)'
      <4>1. \A q \in (KeyPieces * k)..(KeyPieces * k + KeyPieces - 1) :
               q \in 0..(KeyPieces * (Nr + 1) - 1)
        OBVIOUS
      <4> QED BY <3>3, <4>1 DEF KeyReadable
    <3> QED BY <3>2, <3>4 DEF Entries, LocalIds
  <2>2. ASSUME NEW w \in WorkItems, Group(w) # g
        PROVE  pc'[w] = pc[w] /\ visible \subseteq visible'
    BY <1>5, <2>2 DEF Barrier, Meet
  <2> QED BY <1>5, <2>1, <2>2 DEF Barrier, Meet, KeyReadable
<1>6. ASSUME NEW g \in Groups, TableBarrier(g) PROVE LoadInv'
  <2>1. <<g, 0>> \in WorkItems /\ Group(<<g, 0>>) = g
    BY DEF WorkItems, LocalIds, Group
  <2> QED BY <1>6, <2>1 DEF TableBarrier, Meet
<1> QED BY <1>1, <1>2, <1>3, <1>4, <1>5, <1>6 DEF KernelNext

-----------------------------------------------------------------------------
\* With a good table entry and a good round key, a round adds the key.
LEMMA CleanRound ==
    ASSUME NEW n \in Nat, NEW w, NEW e, NEW table,
           Place(w, table, e) \in visible, KeyReadable(w, n + 1)
    PROVE  Round(Clean(n), w, table, e, n + 1) = Clean(n + 1)
<1>1. Clean(n).keys = Keys(n) /\ Clean(n).good = TRUE
  BY DEF Clean
<1>2. (Clean(n).good /\ Place(w, table, e) \in visible) = TRUE
  BY <1>1
<1>3. (TRUE /\ KeyReadable(w, n + 1)) = TRUE
  OBVIOUS
<1>4. Round(Clean(n), w, table, e, n + 1) =
        [keys |-> Append(Keys(n), n + 1), good |-> TRUE]
  BY <1>1, <1>2, <1>3 DEF Round, AddRoundKey
<1> QED BY <1>4, KeysAppend DEF Clean

LEMMA CleanStart ==
    ASSUME NEW w, KeyReadable(w, 0)
    PROVE  AddRoundKey([keys |-> <<>>, good |-> TRUE], w, 0) = Clean(0)
<1>1. (TRUE /\ KeyReadable(w, 0)) = TRUE
  OBVIOUS
<1> QED BY <1>1, KeysZero DEF AddRoundKey, Clean

LEMMA NextState ==
    ASSUME Direction = "encrypt", TypeOK, WalkInv, LoadInv, StateInv, [KernelNext]_kernelVars
    PROVE  StateInv'
<1> USE SizeAssumption DEF StateInv, Goto
<1>1. CASE UNCHANGED kernelVars
  BY <1>1 DEF kernelVars
<1>2. ASSUME NEW w \in WorkItems, LoadTables(w) \/ LoadKey(w) PROVE StateInv'
  BY <1>2 DEF LoadTables, LoadKey, TypeOK
<1>3. ASSUME NEW w \in WorkItems, Start(w) PROVE StateInv'
  <2>1. s' = [s EXCEPT ![w] = Clean(0)]
    <3>1. KeyReadable(w, 0)
      BY <1>3 DEF Start, LoadInv, After
    <3> QED BY <1>3, <3>1, CleanStart DEF Start
  <2> QED BY <1>3, <2>1 DEF Start, TypeOK
<1>4. ASSUME NEW w \in WorkItems, OddRound(w) PROVE StateInv'
  <2>1. r[w] \in Nat /\ rk[w] \in Nat /\ r[w] > 0 /\ rk[w] + 2 * r[w] = Nr
    BY <1>4 DEF OddRound, WalkInv, TypeOK
  <2>2. rk[w] + 1 \in 0..Nr
    BY <2>1
  <2>3. PICK e \in Entries :
            t' = [t EXCEPT ![w] = Round(s[w], w, RoundTable, e, rk[w] + 1)]
    BY <1>4 DEF OddRound
  <2>4. Place(w, RoundTable, e) \in visible /\ KeyReadable(w, rk[w] + 1)
    BY <1>4, <2>2 DEF OddRound, LoadInv, After, RoundTable
  <2>5. s[w] = Clean(rk[w])
    BY <1>4 DEF OddRound
  <2>6. t' = [t EXCEPT ![w] = Clean(rk[w] + 1)]
    <3>1. Round(Clean(rk[w]), w, RoundTable, e, rk[w] + 1) = Clean(rk[w] + 1)
      BY <2>1, <2>4, CleanRound
    <3> QED BY <2>3, <2>5, <3>1
  <2>7. /\ rk' = [rk EXCEPT ![w] = rk[w] + 2] /\ (rk[w] + 2) - 1 = rk[w] + 1
        /\ pc' = [pc EXCEPT ![w] = IF r[w] = 1 THEN "last" ELSE "even"]
        /\ UNCHANGED <<s, result>>
    BY <1>4, <2>1 DEF OddRound
  <2> QED BY <2>6, <2>7 DEF TypeOK
<1>5. ASSUME NEW w \in WorkItems, EvenRound(w) PROVE StateInv'
  <2>1. rk[w] \in 0..Nr /\ rk[w] >= 1
    BY <1>5 DEF EvenRound, WalkInv, TypeOK
  <2>2. PICK e \in Entries :
            s' = [s EXCEPT ![w] = Round(t[w], w, RoundTable, e, rk[w])]
    BY <1>5 DEF EvenRound
  <2>3. Place(w, RoundTable, e) \in visible /\ KeyReadable(w, rk[w])
    BY <1>5, <2>1 DEF EvenRound, LoadInv, After, RoundTable
  <2>4. t[w] = Clean(rk[w] - 1)
    BY <1>5 DEF EvenRound
  <2>5. Round(Clean(rk[w] - 1), w, RoundTable, e, rk[w]) = Clean(rk[w])
    <3>1. rk[w] - 1 \in Nat /\ (rk[w] - 1) + 1 = rk[w]
      BY <2>1
    <3> QED BY <2>3, <3>1, CleanRound
  <2>6. s' = [s EXCEPT ![w] = Clean(rk[w])]
    BY <2>2, <2>4, <2>5
  <2> QED BY <1>5, <2>6 DEF EvenRound, TypeOK
<1>6. ASSUME NEW w \in WorkItems, LastRound(w) PROVE StateInv'
  <2>1. rk[w] = Nr
    BY <1>6 DEF LastRound, WalkInv
  <2>2. PICK e \in Entries :
            result' = [result EXCEPT ![w] = Round(t[w], w, LastTable, e, rk[w])]
    BY <1>6 DEF LastRound
  <2>3. Place(w, LastTable, e) \in visible /\ KeyReadable(w, Nr)
    BY <1>6, <2>1 DEF LastRound, LoadInv, After, LastTable
  <2>4. t[w] = Clean(Nr - 1)
    BY <1>6, <2>1 DEF LastRound
  <2>5. Round(Clean(Nr - 1), w, LastTable, e, Nr) = Clean(Nr)
    <3>1. Nr - 1 \in Nat /\ (Nr - 1) + 1 = Nr
      OBVIOUS
    <3> QED BY <2>3, <3>1, CleanRound
  <2>6. result' = [result EXCEPT ![w] = Clean(Nr)]
    BY <2>1, <2>2, <2>4, <2>5
  <2> QED BY <1>6, <2>6 DEF LastRound, TypeOK
<1>7. ASSUME NEW g \in Groups, TableBarrier(g) \/ Barrier(g) PROVE StateInv'
  BY <1>7 DEF TableBarrier, Barrier, Meet
<1> QED BY <1>1, <1>2, <1>3, <1>4, <1>5, <1>6, <1>7 DEF KernelNext

-----------------------------------------------------------------------------
\* Both kernels keep their types, and the walk its place in the round keys.
LEMMA Walks == KernelSpec => [](TypeOK /\ LoadedFirst /\ WalkInv)
BY InitType, NextType, NextLoadedFirst, NextWalk, PTL DEF KernelSpec

\* Every variable keeps its type in both kernels.
THEOREM TypeCorrect == KernelSpec => []TypeOK
BY Walks, PTL

\* In both kernels no item reads local memory before its whole group has
\* stored it, for every group size (barrier in aes.cl and aes_vec.cl).
THEOREM LoadBeforeUse == KernelSpec => []LoadedFirst
BY Walks, PTL

\* In both kernels the loop ends where the round keys do, for every even
\* number of rounds.
THEOREM WalkStaysInside == KernelSpec => []WalkInside
<1>1. TypeOK /\ WalkInv => WalkInside
  BY SizeAssumption DEF TypeOK, WalkInv, WalkInside
<1> QED BY <1>1, Walks, PTL

\* The encrypt kernels write what the processor's cipher computes, whether or
\* not the round keys are kept in local memory (aes_rijndael_encrypt).
THEOREM EncryptCorrect == KernelSpec => []EncryptIsCpu
<1> DEFINE Inv == Direction = "encrypt" => LoadInv /\ StateInv
<1>1. KernelInit => Inv
  BY DEF KernelInit, LoadInv, StateInv, After
<1>2. TypeOK /\ LoadedFirst /\ WalkInv /\ Inv /\ [KernelNext]_kernelVars => Inv'
  BY NextLoad, NextState, SameKernel
<1>3. Inv => EncryptIsCpu
  BY DEF StateInv, BlockCorrect, EncryptIsCpu, Clean, Keys, CpuBlock
<1> HIDE DEF Inv
<1> QED BY <1>1, <1>2, <1>3, Walks, PTL DEF KernelSpec
=============================================================================
