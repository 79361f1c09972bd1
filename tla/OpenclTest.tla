----------------------------- MODULE OpenclTest -------------------------------
(***************************************************************************)
(* main of src/aes-opencl-test.cc behind initCL (ClDevices): testCL, then  *)
(* testAES, in one process and on one in-order queue each.  A null pointer *)
(* that either dereferences ends the process.                              *)
(***************************************************************************)
EXTENDS GpuCompare

CONSTANT Items      \* work-items of the kernel add, 8 in the code

VARIABLES
    addAt, made, args, memory, running, c, failed, verdict  \* testCL, see AddTest

Add == INSTANCE AddTest WITH at <- addAt

addVars == <<addAt, made, args, memory, running, c, failed, verdict>>
mainVars == <<vars, addVars>>

MainInit == Init /\ Add!Init

AddReturned == addAt > Len(Add!Program)

TestCL ==
    /\ Add!Next
    /\ UNCHANGED <<at, waiting, queue, device, ct, dt, run, computed, verdicts>>

TestAES == AddReturned /\ Next /\ UNCHANGED addVars

MainNext == TestCL \/ TestAES

\* A running thread runs on and the device works off its queues.
MainSpec ==
    /\ MainInit /\ [][MainNext]_mainVars
    /\ WF_mainVars(TestCL)
    /\ WF_mainVars(AddReturned /\ Host /\ UNCHANGED addVars)
    /\ WF_mainVars(AddReturned /\ Device /\ UNCHANGED addVars)

------------------------------------------------------------------------------
(* Properties *)

\* "Add Test: Failed" is logged only if some call to the driver has failed: with
\* a driver that works the sums are there when they are compared, although the
\* kernel's event is dropped and its items run in any order.
FailedMeansFailure == Add!FailedMeansFailure

\* When testCL returns no work-item runs any more, and when testAES does no
\* command is left: both free the arrays and buffers these would use.
NothingOutlives ==
    /\ AddReturned => running = {}
    /\ QuietAtEnd
==============================================================================
