------------------------------ MODULE AddTest --------------------------------
(***************************************************************************)
(* testCL of src/aes-opencl-test.cc, which checks that the device works:   *)
(* the kernel add of src/test.cl over three buffers, through setArg,       *)
(* createBuffer and an in-order queue.  Any call to the driver may fail;   *)
(* the wrappers log that and go on, with a null buffer, an argument that   *)
(* is not set or a null event.                                             *)
(*                                                                         *)
(* An element is "right" when it is what it should be: the input, or the   *)
(* sum of the inputs; memory nobody has written may hold that or not.      *)
(***************************************************************************)
EXTENDS Integers, Sequences

CONSTANT Items          \* work-items, 8 in the code

Buffers == {"a", "b", "c"}
Elements == {"right", "wrong"}

\* Mutant: the kernel is enqueued before its second input is written.
Program_early ==
    <<"buffers", "kernel of", "args", "write a", "kernel", "write b", "read", "compare">>

\* The calls of testCL, in order.
Program ==
    <<"buffers", "kernel of", "args", "write a", "write b", "kernel", "read", "compare">>

VARIABLES
    at,         \* the call testCL is at, behind the last when it has returned
    made,       \* buffers clCreateBuffer has made
    args,       \* arguments of the kernel that are set
    memory,     \* elements of the device buffers
    running,    \* work-items of the kernel still to be executed
    c,          \* the array of the host
    crashed,    \* a null pointer has been dereferenced
    failed,     \* history: some call to the driver has failed
    verdict     \* what has been logged

vars == <<at, made, args, memory, running, c, crashed, failed, verdict>>

Init ==
    /\ at = 1
    /\ made = {} /\ args = {}
    /\ memory \in [Buffers -> {[i \in 1..Items |-> e] : e \in Elements}]
    /\ running = {}
    /\ c \in {[i \in 1..Items |-> e] : e \in Elements}
    /\ crashed = FALSE /\ failed = FALSE
    /\ verdict = "none"

Now(call) == ~crashed /\ at <= Len(Program) /\ Program[at] = call

\* getKernel returns null when createProgram has made no such kernel: setArg is
\* called on it all the same.
GetKernel ==
    /\ Now("kernel of") /\ at' = at + 1
    /\ \/ UNCHANGED <<failed, crashed>>
       \/ failed' = TRUE /\ crashed' = TRUE
    /\ UNCHANGED <<made, args, memory, running, c, verdict>>

\* createBuffer, three times; a buffer without a cl_mem is returned like any other.
CreateBuffers ==
    /\ Now("buffers") /\ at' = at + 1
    /\ made' \in SUBSET Buffers
    /\ failed' = (failed \/ made' /= Buffers)
    /\ UNCHANGED <<args, memory, running, c, crashed, verdict>>

\* setArg reports an error for a buffer that was not made.
Settable == made

SetArgs ==
    /\ Now("args") /\ at' = at + 1
    /\ args' \in SUBSET Settable
    /\ failed' = (failed \/ args' /= Buffers)
    /\ UNCHANGED <<made, memory, running, c, crashed, verdict>>

\* A blocking write: behind what is in the queue, and over when it returns.
Write(call, buf) ==
    /\ Now(call) /\ at' = at + 1
    /\ running = {}
    /\ \/ /\ buf \in made
          /\ memory' = [memory EXCEPT ![buf] = [i \in 1..Items |-> "right"]]
          /\ UNCHANGED failed
       \/ failed' = TRUE /\ UNCHANGED memory
    /\ UNCHANGED <<made, args, running, c, crashed, verdict>>

\* The event is dropped: the host goes on while the device computes.  A kernel
\* whose arguments are not all set is rejected.
EnqueueKernel ==
    /\ Now("kernel") /\ at' = at + 1
    /\ \/ args = Buffers /\ running' = 1..Items /\ UNCHANGED failed
       \/ failed' = TRUE /\ UNCHANGED running
    /\ UNCHANGED <<made, args, memory, c, crashed, verdict>>

\* What add writes: the sum of inputs that are right; of others, anything.
Sum(i) ==
    IF memory["a"][i] = "right" /\ memory["b"][i] = "right" THEN {"right"} ELSE Elements

\* One work-item, in any order.
Add(i) ==
    /\ i \in running
    /\ running' = running \ {i}
    /\ \E e \in Sum(i) : memory' = [memory EXCEPT !["c"][i] = e]
    /\ UNCHANGED <<at, made, args, c, crashed, failed, verdict>>

\* The queue is in order: a blocking read comes back behind the kernel.
ReadReady == running = {}

\* The blocking read; its event is waited on whether it is null or not.
Read ==
    /\ Now("read") /\ at' = at + 1
    /\ \/ /\ "c" \in made /\ ReadReady
          /\ c' = memory["c"]
          /\ UNCHANGED <<crashed, failed>>
       \/ crashed' = TRUE /\ failed' = TRUE /\ UNCHANGED c
    /\ UNCHANGED <<made, args, memory, running, verdict>>

\* error |= ..., over the eight elements.
Error == \E i \in 1..Items : c[i] = "wrong"

Compare ==
    /\ Now("compare") /\ at' = at + 1
    /\ verdict' = IF Error THEN "Failed" ELSE "Success"
    /\ UNCHANGED <<made, args, memory, running, c, crashed, failed>>

Next ==
    \/ GetKernel \/ CreateBuffers \/ SetArgs \/ Write("write a", "a") \/ Write("write b", "b")
    \/ EnqueueKernel \/ Read \/ Compare
    \/ \E i \in 1..Items : Add(i)

Spec == Init /\ [][Next]_vars

------------------------------------------------------------------------------
(* Properties *)

\* "Add Test: Failed" is logged only if some call to the driver has failed: with
\* a driver that works the sums are there when they are compared, although the
\* kernel's event is dropped and its items run in any order.
FailedMeansFailure == verdict = "Failed" => failed
==============================================================================
