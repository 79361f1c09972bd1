------------------------------ MODULE MCOpencl -------------------------------
(***************************************************************************)
(* The wrapper of OpenCL (src/opencl.cc): the command queue, reading and   *)
(* selecting devices, and programs with their kernels, one of them at a    *)
(* time; the variables of the others do not change.                        *)
(***************************************************************************)
EXTENDS ClQueue

CONSTANTS
    Systems, DeviceNames, Types, MaxSize, DeviceFaults, MaxContexts, \* see ClDevices
    Srcs, Options, Kernels, ProgramFaults, MaxPrograms, \* see ClProgram
    Characters      \* what paths, options and the texts of devices are made of

VARIABLES
    part,       \* "queue", "devices" or "program"
    pc, asked,  \* what devices and programs have
    system, ok, platforms, deviceIndex, devices, at, platform, listed, chosen, contexts,
    files, making, programs, cache, live, heldKernels, clKernels, openFiles, answer

-----------------------------------------------------------------------------
(* Devices *)

Installable(name, type, available, size, text) ==
    [name |-> name, type |-> type, available |-> available, size |-> size, text |-> text,
     unreadable |-> {}]

\* Two GPUs of one name and different work groups, one that is the default device
\* as well, one that is not available, and a CPU.
SmallGpu == Installable("north", {"gpu"}, TRUE, 1, <<"x", " ", "G">>)
LargeGpu == Installable("north", {"gpu"}, TRUE, 2, <<" ", "g">>)
DefaultGpu == Installable("south", {"gpu", "default"}, TRUE, 2, <<"x", "g", " ">>)
AwayGpu == Installable("south", {"gpu"}, FALSE, 2, <<"g">>)
Cpu == Installable("host", {"cpu"}, TRUE, 1, <<"g", "x">>)
Kinds == {SmallGpu, LargeGpu, DefaultGpu, AwayGpu, Cpu}

\* A device whose driver may not tell its type and size.
Silent(d) == [d EXCEPT !.unreadable = {"type", "size"}]

UpTo(n, set) == UNION {[1..k -> set] : k \in 0..n}

\* Up to two platforms of up to two devices, and two silent devices, of one
\* platform or of two.
SmallSystems ==
    UpTo(2, UpTo(2, Kinds))
    \cup {<<<<Silent(d1), Silent(d2)>>>> : d1, d2 \in {SmallGpu, LargeGpu, Cpu}}
    \cup {<<<<Silent(d1)>>, <<Silent(d2)>>>> : d1, d2 \in {LargeGpu, Cpu}}

DeviceTypes == {{"gpu"}, {"cpu"}, {"gpu", "default"}}

\* Platforms and devices are counted, a driver reports what there can be, and no
\* device has the name of one of the other things getDevices can be asked for.
Reported(d) ==
    /\ d.type \in Types /\ d.available \in BOOLEAN /\ d.size \in 1..MaxSize
    /\ d.name \notin {"any", "gpu", "cpu", "all"}
    /\ d.text \in Seq(Characters)

ASSUME SystemsAssumption ==
    /\ MaxSize \in Nat
    /\ \A s \in Systems :
           /\ Len(s) \in Nat
           /\ \A p \in 1..Len(s) :
                  Len(s[p]) \in Nat /\ \A k \in 1..Len(s[p]) : Reported(s[p][k])

\* Any call to the driver that may fail does.
Devices == INSTANCE ClDevices WITH Names <- DeviceNames, Faults <- DeviceFaults

\* A driver that does nothing wrong, and at most one device to a platform.
Sound == INSTANCE ClDevices WITH
    Systems <- UpTo(2, UpTo(1, {SmallGpu, LargeGpu, Cpu})), Names <- {},
    Faults <- {}, MaxContexts <- 0

-----------------------------------------------------------------------------
(* Programs *)

Program == INSTANCE ClProgram WITH
    FileStates <- {"absent", "locked", "broken", "good"}, Faults <- ProgramFaults

\* Paths and options are texts, and no caller passes options with a comma: with
\* one, two different pairs of them may have the same key in the cache.
ASSUME TextAssumption ==
    /\ "," \in Characters /\ Srcs \cup Options \subseteq Seq(Characters)
    /\ \A o \in Options : \A i \in 1..Len(o) : o[i] /= ","

\* Two sources and two options strings such that the options followed by the
\* source are the same text twice.
TwoSrcs == {<<"a">>, <<"b", "a">>}
TwoOptions == {<<>>, <<"b">>}

-----------------------------------------------------------------------------
devicesVars ==
    <<system, ok, platforms, deviceIndex, devices, at, platform, listed, chosen, contexts>>
programVars ==
    <<files, making, programs, cache, live, heldKernels, clKernels, openFiles, answer>>
queueOnly == <<inOrder, profiling, commands, null, waiting, tasks, crashed>>

QueueIdle ==
    /\ inOrder = FALSE /\ profiling = FALSE /\ commands = <<>> /\ null = FALSE
    /\ waiting = {} /\ tasks = 0 /\ crashed = FALSE
DevicesIdle ==
    /\ system = 0 /\ ok = 0 /\ platforms = 0 /\ deviceIndex = 0 /\ devices = 0
    /\ at = 0 /\ platform = 0 /\ listed = 0 /\ chosen = 0 /\ contexts = 0
ProgramIdle ==
    /\ files = 0 /\ making = 0 /\ programs = 0 /\ cache = 0 /\ live = 0
    /\ heldKernels = 0 /\ clKernels = 0 /\ openFiles = 0 /\ answer = 0

AnyInit ==
    \/ part = "queue" /\ Init /\ pc = 0 /\ asked = 0 /\ DevicesIdle /\ ProgramIdle
    \/ part = "devices" /\ Devices!Init /\ held = {} /\ QueueIdle /\ ProgramIdle
    \/ part = "program" /\ Program!Init /\ arrays = 0 /\ QueueIdle /\ DevicesIdle

AnyNext ==
    /\ UNCHANGED part
    /\ \/ part = "queue" /\ Next /\ UNCHANGED <<pc, asked, devicesVars, programVars>>
       \/ part = "devices" /\ Devices!Next /\ UNCHANGED <<held, queueOnly, programVars>>
       \/ part = "program" /\ Program!Next /\ UNCHANGED <<arrays, queueOnly, devicesVars>>

allVars == <<part, vars, pc, asked, devicesVars, programVars>>

\* Fairness is that of the queue; elsewhere there is no command and nobody waits.
AnySpec == AnyInit /\ [][AnyNext]_allVars /\ WF_vars(Device) /\ WF_vars(Resume)

SoundInit == part = "sound" /\ Sound!Init /\ held = {} /\ QueueIdle /\ ProgramIdle
SoundNext == Sound!Next /\ UNCHANGED <<part, held, queueOnly, programVars>>
SoundSpec == SoundInit /\ [][SoundNext]_allVars

-----------------------------------------------------------------------------
OfDevices == part = "devices"

\* The variables of each part have their types: indices are those of devices,
\* commands and programs there are.  The only arrays of the queue that are not
\* deleted are the wait lists of enqueueTask.
TypesOK ==
    /\ part = "queue" => TypeOK /\ OnlyTasksLeak
    /\ part = "devices" => Devices!TypeOK
    /\ part = "program" => Program!TypeOK

\* getDevices lists the devices that its match asks for, in order, each once and
\* none that does not match, however far init has come; initCL takes the first GPU
\* with the largest work group, and one of them if the size of any could be read.
SelectedAsAsked ==
    OfDevices => Devices!ListedAsAsked /\ Devices!ChosenIsLargest /\ Devices!ChosenIfRead

\* On whichever path init returns it has deleted its arrays and keeps whole
\* platforms (opencl::init, getPlatformIDs, getDeviceIDs).
InitLeavesWhole == OfDevices => Devices!ArraysFreed /\ Devices!WholePlatforms

\* A context shares with OpenGL if that was asked for and a device reports the
\* extension (opencl_context, parseExtensions, hasExtension).
SharingAsReported == OfDevices => Devices!SharingAsReported

\* createProgram answers with the program of the source and options it was given,
\* the one in the cache, and leaves one file open for each (createProgram).
AnswerIsRight == part = "program" => Program!AnswerIsRight /\ Program!OneFilePerKey

\* A program or kernel lives exactly as long as somebody can reach it
\* (opencl_program, opencl_kernel, the cache of opencl_context).
Lifetimes == part = "program" => Program!ReachableIsUsable /\ Program!UnreachableIsReleased

\* "no OpenCL gpu devices found", says initCL before it exits: then no platform
\* has an available GPU.
ExitMeansNoGpu == Sound!ExitMeansNoGpu

\* "make sure all devices are on the same platform", says getDevices of its list.
ListedOnOnePlatform == Sound!ListedOnOnePlatform
=============================================================================
