----------------------------- MODULE ClDevices -------------------------------
(***************************************************************************)
(* The opencl object of src/opencl.cc: init reads the platforms and their  *)
(* devices from the driver, getDevices selects among them, createContext   *)
(* makes a context over a selection; and initCL of src/aes-opencl-test.cc, *)
(* which takes the GPU with the largest work group.                        *)
(*                                                                         *)
(* Any call to the driver may fail.  A query of a device that fails leaves *)
(* a string empty and a number uninitialised, which is any value here.     *)
(* Extension texts are sequences of characters; "g" stands for the name    *)
(* of one of the sharing extensions.                                       *)
(***************************************************************************)
EXTENDS Integers, Sequences, FiniteSets

CONSTANTS
    Systems,        \* what may be installed: sequences (the platforms) of
                    \* sequences of devices [name, type, available, size, text,
                    \* unreadable], the last of the fields whose queries may fail:
                    \* "name", "text", "type", "available" and "size"
    Names,          \* the device names that are asked for
    Types,          \* the values of CL_DEVICE_TYPE, sets of bits
    MaxSize,        \* bound on CL_DEVICE_MAX_WORK_GROUP_SIZE
    Faults,         \* of the driver's "platforms", "devices" and "context" calls, those
                    \* that may fail
    MaxContexts     \* bound on the contexts made

VARIABLES
    system,     \* what is installed, which nobody writes
    pc,         \* "start"; "platform", "device" and "extensions" in init; "ready"
                \* between calls, "select" in getDevices, "choose" in the loop of
                \* initCL; then "exit", "crashed" or "running"
    ok,         \* what init returned
    arrays,     \* identifier arrays allocated and not deleted
    platforms,  \* opencl::platforms: how many have been read
    deviceIndex,\* devices of the last of them that have been constructed
    devices,    \* opencl::devices
    at,         \* where the loop of parseExtensions, getDevices or initCL is, 0
                \* outside of them
    platform,   \* the local variable of getDevices, 0 for null
    asked,      \* history: the last match getDevices was given
    listed,     \* history: what it returned
    chosen,     \* chosen_device of initCL, an index of devices, 0 for null
    contexts    \* opencl::contexts

vars == <<system, pc, ok, arrays, platforms, deviceIndex, devices, at, platform, asked,
          listed, chosen, contexts>>

Init ==
    /\ system \in Systems
    /\ pc = "start"
    /\ ok = FALSE
    /\ arrays = 0
    /\ platforms = 0
    /\ deviceIndex = 0
    /\ devices = <<>>
    /\ at = 0 /\ platform = 0
    /\ asked = "none" /\ listed = <<>>
    /\ chosen = 0
    /\ contexts = <<>>

------------------------------------------------------------------------------
(* Reading what the driver has *)

\* getPlatformIDs: the count, a new array, the identifiers.  There is an error
\* for no platform at all, and the second call's deletes the array.
GetPlatformIDs ==
    /\ pc = "start"
    /\ \/ /\ system /= <<>>
          /\ pc' = "platform" /\ arrays' = arrays + 1
       \/ /\ system = <<>> \/ "platforms" \in Faults
          /\ pc' = "ready" /\ UNCHANGED arrays
    /\ UNCHANGED <<system, ok, platforms, deviceIndex, devices>>
    /\ UNCHANGED <<at, platform, asked, listed, chosen, contexts>>

\* getDeviceIDs: the count, a new array, the identifiers.  There is an error for a
\* platform without devices (CL_DEVICE_NOT_FOUND).
GetDeviceIDs ==
    /\ Len(system[platforms']) > 0
    /\ pc' = "device" /\ arrays' = arrays + 1
DevicesFail == Len(system[platforms']) = 0 \/ "devices" \in Faults

\* Mutant: a platform whose devices cannot be read is passed over.
ReadPlatform_goeson ==
    /\ pc = "platform" /\ platforms < Len(system)
    /\ platforms' = platforms + 1 /\ deviceIndex' = 0
    /\ GetDeviceIDs \/ (DevicesFail /\ UNCHANGED <<pc, arrays>>)
    /\ UNCHANGED <<system, ok, devices, at, platform, asked, listed, chosen, contexts>>

\* Push the platform, then getDeviceIDs; when that fails init gives up and deletes
\* its array.
ReadPlatform ==
    /\ pc = "platform" /\ platforms < Len(system)
    /\ platforms' = platforms + 1 /\ deviceIndex' = 0
    /\ GetDeviceIDs \/ (DevicesFail /\ pc' = "ready" /\ arrays' = arrays - 1)
    /\ UNCHANGED <<system, ok, devices, at, platform, asked, listed, chosen, contexts>>

\* The name of a device before it is read.
Unnamed == ""

\* What a field holds after its query: a string that could not be read is the
\* empty one it was constructed as, a number is whatever the memory held.
StringField(field, failed, value, empty) == IF field \in failed THEN empty ELSE value
NumberField(field, failed, value, any) == IF field \in failed THEN any ELSE {value}

\* The opencl_device constructor goes through its queries whether they fail or not.
Queried(installed) ==
    UNION { { [platform |-> platforms, index |-> deviceIndex, unread |-> failed,
               name |-> StringField("name", failed, installed.name, Unnamed),
               text |-> StringField("text", failed, installed.text, <<>>),
               type |-> t, available |-> a, size |-> n, extensions |-> {}] :
                  t \in NumberField("type", failed, installed.type, Types),
                  a \in NumberField("available", failed, installed.available, BOOLEAN),
                  n \in NumberField("size", failed, installed.size, 0..MaxSize) } :
            failed \in SUBSET installed.unreadable }

\* The next device of the platform, up to the extensions.
ReadDevice ==
    /\ pc = "device"
    /\ \E d \in Queried(system[platforms][deviceIndex + 1]) : devices' = Append(devices, d)
    /\ deviceIndex' = deviceIndex + 1
    /\ pc' = "extensions" /\ at' = 1
    /\ UNCHANGED <<system, ok, arrays, platforms, platform, asked, listed, chosen, contexts>>

\* What separates the extensions.
Space == " "

Lower(text) == [i \in 1..Len(text) |-> IF text[i] = "G" THEN "g" ELSE text[i]]

\* Mutant: the search for the space begins behind the first character.
NextSpace_skips(text, current) ==
    LET spaces == {i \in current + 1..Len(text) : text[i] = Space}
    IN  IF spaces = {} THEN Len(text) + 1 ELSE CHOOSE i \in spaces : \A j \in spaces : i <= j

NextSpace(text, current) ==
    LET spaces == {i \in current..Len(text) : text[i] = Space}
    IN  IF spaces = {} THEN Len(text) + 1 ELSE CHOOSE i \in spaces : \A j \in spaces : i <= j

\* The next turn of the loop of init; behind the last device of the platform it
\* deletes its array.
NextDevice ==
    \/ /\ deviceIndex < Len(system[platforms])
       /\ pc' = "device" /\ UNCHANGED arrays
    \/ /\ deviceIndex = Len(system[platforms])
       /\ pc' = "platform" /\ arrays' = arrays - 1

\* One turn of the loop of parseExtensions: the text up to the next space, in lower
\* case.  The constructor returns behind the last.
ParseExtension ==
    /\ pc = "extensions"
    /\ LET d == devices[Len(devices)]
           next == NextSpace(d.text, at)
           extname == Lower(SubSeq(d.text, at, next - 1))
       IN  /\ devices' = [devices EXCEPT ![Len(devices)].extensions = @ \cup {extname}]
           /\ IF next <= Len(d.text)
              THEN at' = next + 1 /\ UNCHANGED <<pc, arrays>>
              ELSE at' = 0 /\ NextDevice
    /\ UNCHANGED <<system, ok, platforms, deviceIndex, platform, asked, listed, chosen, contexts>>

ReadAll ==
    /\ pc = "platform" /\ platforms = Len(system)
    /\ pc' = "ready" /\ ok' = TRUE /\ arrays' = arrays - 1
    /\ UNCHANGED <<system, platforms, deviceIndex, devices>>
    /\ UNCHANGED <<at, platform, asked, listed, chosen, contexts>>

------------------------------------------------------------------------------
(* Selecting devices *)

\* What init has made, and nobody writes when it has returned.
opencl == <<system, ok, arrays, platforms, deviceIndex, devices>>

\* getDevices is called, by a caller that goes on when it returns.
Ask(match) ==
    /\ pc = "ready"
    /\ pc' = "select" /\ at' = 1 /\ platform' = 0
    /\ asked' = match /\ listed' = <<>>
    /\ UNCHANGED <<opencl, chosen, contexts>>

\* The branches of getDevices that assign the local variable platform.
SetsPlatform(match, d) == match \in {"all", d.name}

Skipped(d) == ~d.available \/ (platform /= 0 /\ d.platform /= platform)

Matches(match, d) ==
    \/ match \in {"any", "all", d.name}
    \/ match \in {"gpu", "cpu"} /\ d.type = {match}

\* One turn of the loop of getDevices.  Devices are listed by their indices.
Turn ==
    /\ pc = "select" /\ at <= Len(devices)
    /\ LET d == devices[at]
       IN  \/ /\ Skipped(d) \/ ~Matches(asked, d)
              /\ at' = at + 1
              /\ UNCHANGED <<listed, platform>>
           \/ /\ ~Skipped(d) /\ Matches(asked, d)
              /\ listed' = Append(listed, at)
              /\ platform' = IF SetsPlatform(asked, d) THEN d.platform ELSE platform
              /\ at' = IF asked = "any" THEN Len(devices) + 1 ELSE at + 1
    /\ UNCHANGED <<opencl, pc, asked, chosen, contexts>>

\* getDevices returns, and its caller takes the list.
Returns(next) ==
    /\ pc = "select" /\ at > Len(devices)
    /\ pc' = next /\ at' = 0 /\ platform' = 0
    /\ UNCHANGED <<opencl, asked, listed>>

\* Nothing is done with the list.
GetDevices == Returns("ready") /\ UNCHANGED <<chosen, contexts>>

------------------------------------------------------------------------------
(* Making a context *)

HasExtension(d, extname) == Lower(extname) \in d.extensions

\* The opencl_context constructor: an error of clCreateContext is logged only.
\* A context spans one platform.
NewContext(list, gl) ==
    { [devices |-> list, request |-> gl,
       glSharing |-> gl /\ \E k \in 1..Len(list) : HasExtension(devices[list[k]], <<"g">>),
       made |-> m] : m \in BOOLEAN }

Creatable(context) ==
    \/ ~context.made /\ "context" \in Faults
    \/ context.made <=> \A j, k \in 1..Len(context.devices) :
           devices[context.devices[j]].platform = devices[context.devices[k]].platform

\* createContext: nothing for an empty list.
CreateContext(gl) ==
    /\ Returns("ready")
    /\ IF listed = <<>>
       THEN UNCHANGED contexts
       ELSE /\ Len(contexts) < MaxContexts
            /\ \E c \in NewContext(listed, gl) :
                   Creatable(c) /\ contexts' = Append(contexts, c)
    /\ UNCHANGED chosen

------------------------------------------------------------------------------
(* initCL of the comparison program *)

\* It exits when there are no GPUs, and goes through the list of them otherwise.
InitCL ==
    /\ asked = "gpu"
    /\ \/ listed = <<>> /\ Returns("exit")
       \/ /\ listed /= <<>> /\ pc = "select" /\ at > Len(devices)
          /\ pc' = "choose" /\ at' = 1 /\ platform' = 0
          /\ UNCHANGED <<opencl, asked, listed>>
    /\ UNCHANGED <<chosen, contexts>>

\* Mutant: the best size so far is not remembered.
Better_forgets(i) == devices[i].size > 0

Better(i) == devices[i].size > IF chosen = 0 THEN 0 ELSE devices[chosen].size

\* One turn of its loop, from a best size of 0.
Choose ==
    /\ pc = "choose" /\ at <= Len(listed)
    /\ chosen' = IF Better(listed[at]) THEN listed[at] ELSE chosen
    /\ at' = at + 1
    /\ UNCHANGED <<opencl, pc, platform, asked, listed, contexts>>

\* It dereferences the device it has chosen and makes a context for it.
UseChosen ==
    /\ pc = "choose" /\ at > Len(listed)
    /\ \/ chosen = 0 /\ pc' = "crashed" /\ UNCHANGED contexts
       \/ /\ chosen /= 0 /\ pc' = "running"
          /\ \E c \in NewContext(<<chosen>>, FALSE) :
                 Creatable(c) /\ contexts' = Append(contexts, c)
    /\ at' = 0
    /\ UNCHANGED <<opencl, platform, asked, listed, chosen>>

Next ==
    \/ GetPlatformIDs \/ ReadPlatform \/ ReadDevice \/ ParseExtension \/ ReadAll
    \/ \E match \in {"any", "gpu", "cpu", "all"} \cup Names : Ask(match)
    \/ Turn \/ GetDevices
    \/ \E gl \in BOOLEAN : CreateContext(gl)
    \/ InitCL \/ Choose \/ UseChosen

Spec == Init /\ [][Next]_vars

------------------------------------------------------------------------------
(* Properties *)

TypeOK ==
    /\ pc \in {"start", "platform", "device", "extensions", "ready", "select", "choose",
              "exit", "crashed", "running"}
    /\ arrays \in 0..2
    /\ platforms \in 0..Len(system)
    /\ \A i \in 1..Len(devices) : devices[i].type \in Types /\ devices[i].size \in 0..MaxSize
    /\ \A k \in 1..Len(listed) : listed[k] \in 1..Len(devices)
    /\ chosen \in 0..Len(devices)

Returned == pc \notin {"start", "platform", "device", "extensions"}

\* When init has returned, on whichever path, no identifier array is left.
ArraysFreed == Returned => arrays = 0

\* The installed device a device of the list has been read from.
Where(d) == <<d.platform, d.index>>
Before(d, e) == d.platform < e.platform \/ (d.platform = e.platform /\ d.index < e.index)

\* The list has every device of the first n platforms once, in order, and no other.
ListsPlatforms(n) ==
    /\ \A i \in 1..Len(devices) :
           /\ devices[i].platform \in 1..n
           /\ devices[i].index \in 0..Len(system[devices[i].platform]) - 1
    /\ \A p \in 1..n : \A k \in 0..Len(system[p]) - 1 :
           \E i \in 1..Len(devices) : Where(devices[i]) = <<p, k>>
    /\ \A i, j \in 1..Len(devices) : i < j => Before(devices[i], devices[j])

\* A failure in the middle leaves whole platforms: the list has the devices of the
\* platforms before the last one read, and of that one all, when init returned
\* true, or none.
WholePlatforms == Returned => ListsPlatforms(IF ok THEN Len(system) ELSE platforms - 1)

\* The available devices that match by themselves, and the first of a set.
Among(match) ==
    {i \in 1..Len(devices) : devices[i].available /\ Matches(match, devices[i])}
IsFirst(i, set) == i \in set /\ \A j \in set : i <= j

\* What is asked of getDevices: "any" is the first available device, and every other
\* match keeps to the platform of the first device it finds, "make sure all devices
\* are on the same platform" (src/opencl.cc:1205).
Wanted(match) ==
    {i \in Among(match) : \E f \in Among(match) :
        /\ IsFirst(f, Among(match))
        /\ IF match = "any" THEN i = f ELSE devices[i].platform = devices[f].platform}

\* A list has the members of a set, in order and each once.
ListOf(list, set) ==
    /\ {list[k] : k \in 1..Len(list)} = set
    /\ \A j, k \in 1..Len(list) : j < k => list[j] < list[k]

\* The devices of the list are what its match asks for.  For "gpu" and "cpu" it may
\* have more of them, on other platforms, which ListedOnOnePlatform refuses.
ListIsRight ==
    IF asked \in {"gpu", "cpu"}
    THEN \E set \in SUBSET Among(asked) : Wanted(asked) \subseteq set /\ ListOf(listed, set)
    ELSE ListOf(listed, Wanted(asked))

\* getDevices returns the devices it is asked for,
ListedAsAsked == asked /= "none" /\ pc /= "select" => ListIsRight

\* and all of them are on the same platform.
ListedOnOnePlatform ==
    pc /= "select" => \A j, k \in 1..Len(listed) :
                         devices[listed[j]].platform = devices[listed[k]].platform

\* initCL takes, of the GPUs it lists, the first with the largest work group.
ChosenIsLargest ==
    pc = "running" =>
        \A k \in 1..Len(listed) :
            LET size == devices[listed[k]].size
            IN  \/ size < devices[chosen].size
                \/ size = devices[chosen].size /\ \E j \in 1..k : listed[j] = chosen

\* When the driver has said how large the work groups of one of the GPUs listed
\* are, the loop of initCL ends with a device.
ChosenIfRead ==
    pc = "choose" /\ at > Len(listed) =>
        chosen /= 0 \/ \A k \in 1..Len(listed) : "size" \in devices[listed[k]].unread

\* "no OpenCL gpu devices found", says initCL before it exits.
ExitMeansNoGpu ==
    pc = "exit" =>
        ~ \E p \in 1..Len(system) : \E i \in 1..Len(system[p]) :
              system[p][i].available /\ "gpu" \in system[p][i].type

\* The text of a device has the extension as a word of its own.
Reports(d) ==
    \E i \in 1..Len(d.text) :
        /\ d.text[i] \in {"g", "G"}
        /\ i = 1 \/ d.text[i - 1] = Space
        /\ i = Len(d.text) \/ d.text[i + 1] = Space

\* A context claims to share with OpenGL exactly if that was requested and one
\* of its devices reports the extension as a word of its own.
SharingAsReported ==
    \A j \in 1..Len(contexts) :
        LET c == contexts[j]
        IN  c.glSharing <=> /\ c.request
                            /\ \E k \in 1..Len(c.devices) : Reports(devices[c.devices[k]])
==============================================================================
