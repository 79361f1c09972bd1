---------------------------- MODULE MCOpenclTest -----------------------------
(***************************************************************************)
(* The comparison program (OpenclTest), or one small work-group of one of  *)
(* its kernels (AesKernel), whose variables do not change while the other  *)
(* is at work.                                                             *)
(*                                                                         *)
(* The cipher is short; the round keys are in constant memory (aes.cl) or  *)
(* in local memory (aes_vec.cl).  The group has as many items as there are *)
(* round keys to copy, and TableSize is LocalSize, so that every item      *)
(* loads one entry of each table as with 256.                              *)
(***************************************************************************)
EXTENDS OpenclTest, AesKernel

VARIABLE part       \* "program" or "kernel"

MCGroups == {0}
AllKernels == [kernel : {"encrypt", "decrypt"}, keyLocal : BOOLEAN]
Decrypts == {v \in AllKernels : v.kernel = "decrypt"}

ProgramInit ==
    /\ part = "program" /\ MainInit
    /\ KernelInit /\ variant = CHOOSE v \in Variants : TRUE
KernelAlone ==
    /\ part = "kernel" /\ KernelInit
    /\ MainInit /\ c = [i \in 1..Items |-> "wrong"] /\ \A b \in Add!Buffers : memory[b] = c

InProgram(action) == part = "program" /\ action /\ UNCHANGED <<part, kernelVars>>
InKernel == part = "kernel" /\ KernelNext /\ UNCHANGED <<part, mainVars>>

PartNext == InProgram(MainNext) \/ InKernel

\* Fairness is that of MainSpec and of KernelFairSpec.
PartSpec ==
    /\ ProgramInit \/ KernelAlone
    /\ [][PartNext]_<<part, mainVars, kernelVars>>
    /\ WF_mainVars(InProgram(TestCL))
    /\ WF_mainVars(InProgram(AddReturned /\ Host /\ UNCHANGED addVars))
    /\ WF_mainVars(InProgram(AddReturned /\ Device /\ UNCHANGED addVars))
    /\ WF_kernelVars(InKernel)

-----------------------------------------------------------------------------
\* The host gets through its program or dies on a null pointer: it never waits for
\* ever (enqueue*, wait, finish as main calls them).
ProgramCompletes == part = "program" => Completes

\* Every item finishes: nobody waits for ever at a barrier (the barriers of
\* aes_rijndael_encrypt and aes_rijndael_decrypt).
KernelFinishes == part = "kernel" => Finishes
=============================================================================
