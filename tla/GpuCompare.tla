----------------------------- MODULE GpuCompare ------------------------------
(***************************************************************************)
(* testAES of src/aes-opencl-test.cc: the host fills device buffers, has   *)
(* the encrypt kernel run, reads the result and compares it with its own   *)
(* cipher, through the wrappers of opencl_command_queue and opencl_event   *)
(* (src/opencl.cc) and an in-order command queue the device works off.     *)
(*                                                                         *)
(* The runtime may reject any command: the wrapper then logs and returns a *)
(* null event, which most of the host program waits on at once and some of *)
(* it drops.  Buffer contents are "undef", "zero", "key", "plain" or       *)
(* "cipher", with the run whose kernel computed them.  The kernel itself   *)
(* is AesKernel: it computes the cipher of what its buffers hold.          *)
(***************************************************************************)
EXTENDS Integers, Sequences

CONSTANT NumRuns        \* num_runs, 5 in the code

ASSUME RunsAssumption == NumRuns \in Nat /\ NumRuns > 0

\* An instruction of the host program.  "waits" says that the event is waited
\* on, "blocks" that the call itself returns when the command is complete.
Write(buf, waits) == [op |-> "write", buf |-> buf, blocks |-> TRUE, waits |-> waits]
Kernel(waits) == [op |-> "kernel", buf |-> "ct", blocks |-> FALSE, waits |-> waits]
Read == [op |-> "read", buf |-> "ct", blocks |-> TRUE, waits |-> TRUE]
Cpu == [op |-> "cpu", buf |-> "dt", blocks |-> FALSE, waits |-> FALSE]
Compare == [op |-> "compare", buf |-> "dt", blocks |-> FALSE, waits |-> FALSE]

Times(n, body) == [i \in 1..(n * Len(body)) |-> body[((i - 1) % Len(body)) + 1]]

\* Mutant: the kernels of the last loop are not waited for.
Program_nowait ==
    <<Write("rk", TRUE)>>
    \o Times(NumRuns, <<Write("pt", TRUE), Read>>)
    \o Times(NumRuns, <<Write("pt", FALSE), Kernel(FALSE), Read, Cpu, Compare>>)
    \o Times(NumRuns, <<Kernel(FALSE)>>)

Program ==
    <<Write("rk", TRUE)>>
    \o Times(NumRuns, <<Write("pt", TRUE), Read>>)
    \o Times(NumRuns, <<Write("pt", FALSE), Kernel(FALSE), Read, Cpu, Compare>>)
    \o Times(NumRuns, <<Kernel(TRUE)>>)

VARIABLES
    at,         \* the instruction the host is at; behind the last when it is done
    waiting,    \* the host is inside a blocking call or opencl_event::wait
    crashed,    \* the host has dereferenced a null event
    queue,      \* commands enqueued and not yet executed
    device,     \* contents of the device buffers
    ct, dt,     \* contents of the host buffers
    run,        \* comparisons made
    computed,   \* history: runs whose kernel the runtime accepted
    verdicts    \* history: what each comparison has logged

vars == <<at, waiting, crashed, queue, device, ct, dt, run, computed, verdicts>>

Data(value, by) == [value |-> value, run |-> by]

Init ==
    /\ at = 1
    /\ waiting = FALSE /\ crashed = FALSE
    /\ queue = <<>>
    /\ device = [b \in {"rk", "pt", "ct"} |-> Data("undef", 0)]
    /\ ct = Data("zero", 0) /\ dt = Data("zero", 0)
    /\ run = 0
    /\ computed = {}
    /\ verdicts = <<>>

Running == ~crashed /\ ~waiting /\ at <= Len(Program)
Now == Program[at]
IsCommand == Now.op \in {"write", "kernel", "read"}

\* The runtime accepts the command; the call or the event wait may block.
Accept ==
    /\ Running /\ IsCommand
    /\ queue' = Append(queue, [op |-> Now.op, buf |-> Now.buf, run |-> run + 1])
    /\ waiting' = (Now.blocks \/ Now.waits)
    /\ computed' = IF Now.op = "kernel" THEN computed \cup {run + 1} ELSE computed
    /\ at' = at + 1
    /\ UNCHANGED <<crashed, device, ct, dt, run, verdicts>>

\* The runtime rejects it: a null event, followed if the program waits on it.
Reject ==
    /\ Running /\ IsCommand
    /\ IF Now.waits
       THEN crashed' = TRUE /\ UNCHANGED at
       ELSE at' = at + 1 /\ UNCHANGED crashed
    /\ UNCHANGED <<waiting, queue, device, ct, dt, run, computed, verdicts>>

\* Mutant: the host waits for a completion it may have missed.
Resume_missed ==
    /\ waiting
    /\ Len(queue) = 1
    /\ waiting' = FALSE
    /\ UNCHANGED <<at, crashed, queue, device, ct, dt, run, computed, verdicts>>

\* The command the host is waiting for was the last it enqueued.
Resume ==
    /\ waiting
    /\ queue = <<>>
    /\ waiting' = FALSE
    /\ UNCHANGED <<at, crashed, queue, device, ct, dt, run, computed, verdicts>>

\* The loop over aes_rijndael_encrypt on the host.
CpuEncrypt ==
    /\ Running /\ Now.op = "cpu"
    /\ dt' = Data("cipher", run + 1)
    /\ at' = at + 1
    /\ UNCHANGED <<waiting, crashed, queue, device, ct, run, computed, verdicts>>

\* memcmp of the two results, and the line logged.
CompareResults ==
    /\ Running /\ Now.op = "compare"
    /\ verdicts' = Append(verdicts, IF ct.value = dt.value THEN "PASS" ELSE "FAIL")
    /\ run' = run + 1
    /\ at' = at + 1
    /\ UNCHANGED <<waiting, crashed, queue, device, ct, dt, computed>>

Host == Accept \/ Reject \/ Resume \/ CpuEncrypt \/ CompareResults

\* Mutant: the plaintext is written where the round keys belong.
HostData_swapped(buf) == Data("plain", 0)

\* What the host buffer behind a device buffer holds.
HostData(buf) == IF buf = "rk" THEN Data("key", 0) ELSE Data("plain", 0)

\* Mutant: commands complete in any order (an out-of-order queue).
Device_outoforder ==
    \E i \in 1..Len(queue) :
        /\ queue' = SubSeq(queue, 1, i - 1) \o SubSeq(queue, i + 1, Len(queue))
        /\ LET c == queue[i]
           IN  CASE c.op = "write" ->
                      device' = [device EXCEPT ![c.buf] = HostData(c.buf)] /\ UNCHANGED ct
                 [] c.op = "kernel" ->
                      /\ device' = [device EXCEPT !["ct"] = Data("cipher", c.run)]
                      /\ UNCHANGED ct
                 [] c.op = "read" -> ct' = device["ct"] /\ UNCHANGED device
        /\ UNCHANGED <<at, waiting, crashed, dt, run, computed, verdicts>>

\* Commands complete in the order they were enqueued.
Device ==
    /\ queue # <<>>
    /\ queue' = Tail(queue)
    /\ LET c == Head(queue)
       IN  CASE c.op = "write" ->
                  device' = [device EXCEPT ![c.buf] = HostData(c.buf)] /\ UNCHANGED ct
             [] c.op = "kernel" ->
                  /\ device' = [device EXCEPT !["ct"] =
                       IF device["rk"].value = "key" /\ device["pt"].value = "plain"
                       THEN Data("cipher", c.run)
                       ELSE Data("undef", c.run)]
                  /\ UNCHANGED ct
             [] c.op = "read" -> ct' = device["ct"] /\ UNCHANGED device
    /\ UNCHANGED <<at, waiting, crashed, dt, run, computed, verdicts>>

Next == Host \/ Device

Spec == Init /\ [][Next]_vars

\* The host thread is scheduled, and the device works off its queue.
FairSpec == Spec /\ WF_vars(Host) /\ WF_vars(Device)

-----------------------------------------------------------------------------
Ended == crashed \/ (at > Len(Program) /\ ~waiting)

\* What is compared is what the last accepted kernel computed: a result read
\* back is never older than the kernel enqueued before the read.
ComparedIsNewest ==
    Running /\ Now.op = "compare" =>
        \A n \in computed : n <= ct.run

\* "FAIL" says that no kernel has run so far; a kernel that has run is never
\* reported as failing because of rejected commands or of the order in which
\* the device works.
FailMeansNeverRan ==
    \A n \in 1..Len(verdicts) : verdicts[n] = "FAIL" => computed \cap (1..n) = {}

\* When testAES returns and frees its buffers no command is left that uses
\* them.
QuietAtEnd == at > Len(Program) /\ ~waiting => queue = <<>>

\* The host never waits for ever: it gets through its program or dies on a
\* null event.
Completes == <>[]Ended

\* A line "encrypt PASS" of a run says that the device has encrypted in it.
PassMeansComputed ==
    \A n \in 1..Len(verdicts) : verdicts[n] = "PASS" => n \in computed
=============================================================================
