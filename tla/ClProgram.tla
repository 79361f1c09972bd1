----------------------------- MODULE ClProgram -------------------------------
(***************************************************************************)
(* opencl_context::createProgram with its cache, the constructor and the   *)
(* destructor of opencl_program, getKernel and the lifetime of the kernels *)
(* (src/opencl.cc).  Programs and kernels are shared_ptrs: a program lives *)
(* while its context caches it or a caller holds it, a kernel while its    *)
(* program or a caller does.  Source files change behind the program's     *)
(* back and any call to the driver may fail.                               *)
(*                                                                         *)
(* A path and an options string are sequences of characters; a program is  *)
(* an index of programs.                                                   *)
(***************************************************************************)
EXTENDS Integers, Sequences, FiniteSets

CONSTANTS
    Srcs, Options,  \* the paths and the options strings asked for
    Kernels,        \* the kernels of a source that builds
    FileStates,     \* what may become of a source file: "absent", "locked", "broken", "good"
    Faults,         \* the driver calls that may fail, of "create", "kernels" and "names"
    MaxPrograms     \* bound on the programs made

VARIABLES
    files,      \* the source files
    pc,         \* "idle", or the call the constructor of a program makes next
    making,     \* the program under construction
    programs,   \* the programs made, dead ones included
    cache,      \* programCache, from keys to programs
    live,       \* the context has not been destroyed
    held,       \* programs the caller holds
    heldKernels,\* kernels the caller holds, <<program, name>>
    clKernels,  \* kernels the driver has, not yet released
    openFiles,  \* FILEs opened and not closed
    asked,      \* history: source and options of the last createProgram
    answer      \* history: the program it returned, 0 while it has not

vars == <<files, pc, making, programs, cache, live, held, heldKernels, clKernels,
          openFiles, asked, answer>>
handles == <<held, heldKernels, live, cache>>

\* The programs programCache has a shared_ptr to.
InCache == {cache[key] : key \in DOMAIN cache}

NoProgram == [src |-> <<>>, options |-> <<>>, text |-> "none", cl |-> "unset",
              kernels |-> {}, unnamed |-> {}]

Init ==
    /\ files \in [Srcs -> FileStates]
    /\ pc = "idle"
    /\ making = NoProgram
    /\ programs = <<>>
    /\ cache = <<>>
    /\ live = TRUE
    /\ held = {} /\ heldKernels = {}
    /\ clKernels = {}
    /\ openFiles = 0
    /\ asked = [src |-> <<>>, options |-> <<>>] /\ answer = 0

\* Somebody edits, removes or locks a source file.
ChangeFile(src) ==
    /\ \E state \in FileStates : files' = [files EXCEPT ![src] = state]
    /\ UNCHANGED <<pc, making, programs, clKernels, openFiles, asked, answer>>
    /\ UNCHANGED handles

------------------------------------------------------------------------------
(* createProgram *)

\* Mutant: no comma between the parts of the key.
CacheKey_joined(src, options) == options \o src

CacheKey(src, options) == options \o <<",">> \o src

\* std::map::insert, which replaces nothing.
Cached(program, number) ==
    [key \in DOMAIN cache \cup {CacheKey(program.src, program.options)} |->
        IF key \in DOMAIN cache THEN cache[key] ELSE number]

\* The constructor returns: the program is cached and handed out.
Finish(program) ==
    /\ pc' = "idle"
    /\ making' = NoProgram
    /\ programs' = Append(programs, program)
    /\ cache' = Cached(program, Len(programs) + 1)
    /\ held' = held \cup {Len(programs) + 1}
    /\ answer' = Len(programs) + 1

\* Look for the key; without an entry, construct a program.
CreateProgram(src, options) ==
    /\ pc = "idle" /\ live
    /\ asked' = [src |-> src, options |-> options]
    /\ IF CacheKey(src, options) \in DOMAIN cache
       THEN /\ answer' = cache[CacheKey(src, options)]
            /\ held' = held \cup {answer'}
            /\ UNCHANGED <<pc, making>>
       ELSE /\ Len(programs) < MaxPrograms
            /\ pc' = "stat" /\ answer' = 0
            /\ making' = [NoProgram EXCEPT !.src = src, !.options = options]
            /\ UNCHANGED held
    /\ UNCHANGED <<files, programs, cache, live, heldKernels, clKernels, openFiles>>

\* stat: without a file the driver is never asked for a program.
StatSource ==
    /\ pc = "stat"
    /\ IF files[making.src] = "absent"
       THEN Finish(making)
       ELSE /\ pc' = "read"
            /\ making' = [making EXCEPT !.text = files[making.src]]
            /\ UNCHANGED <<programs, cache, held, answer>>
    /\ UNCHANGED <<files, live, heldKernels, clKernels, openFiles, asked>>

\* fopen and fread, up to the size stat has given: the text of a file that has
\* changed since is cut off or filled up.  The file is never closed.
ReadSource ==
    /\ pc = "read"
    /\ IF files[making.src] \in {"absent", "locked"}
       THEN Finish(making) /\ UNCHANGED openFiles
       ELSE /\ pc' = "create" /\ openFiles' = openFiles + 1
            /\ \E text \in {"broken", "good"} :
                   /\ files[making.src] = making.text => text = making.text
                   /\ making' = [making EXCEPT !.text = text]
            /\ UNCHANGED <<programs, cache, held, answer>>
    /\ UNCHANGED <<files, live, heldKernels, clKernels, asked>>

\* clCreateProgramWithSource, then clBuildProgram, whose error is only logged.
CreateWithSource ==
    /\ pc = "create"
    /\ \/ /\ pc' = IF making.text = "good" THEN "kernels" ELSE "unbuilt"
          /\ making' = [making EXCEPT !.cl = "live"]
          /\ UNCHANGED <<programs, cache, held, answer>>
       \/ "create" \in Faults /\ Finish([making EXCEPT !.cl = "null"])
    /\ UNCHANGED <<files, live, heldKernels, clKernels, openFiles, asked>>

\* clCreateKernelsInProgram: it fails for a program that is not built.
CreateKernels ==
    /\ \/ /\ pc = "kernels"
          /\ pc' = "names"
          /\ clKernels' = clKernels \cup ({Len(programs) + 1} \X Kernels)
          /\ UNCHANGED <<making, programs, cache, held, answer>>
       \/ /\ pc = "unbuilt" \/ (pc = "kernels" /\ "kernels" \in Faults)
          /\ Finish(making) /\ UNCHANGED clKernels
    /\ UNCHANGED <<files, live, heldKernels, openFiles, asked>>

\* Every kernel whose name can be read goes into the map; the others are lost.
NameKernels ==
    /\ pc = "names"
    /\ \E unnamed \in IF "names" \in Faults THEN SUBSET Kernels ELSE {{}} :
           Finish([making EXCEPT !.kernels = Kernels \ unnamed, !.unnamed = unnamed])
    /\ UNCHANGED <<files, live, heldKernels, clKernels, openFiles, asked>>

------------------------------------------------------------------------------
(* Handles *)

\* getKernel: null, and nothing to hold, for a name that is not in the map.
GetKernel(p, name) ==
    /\ pc = "idle" /\ p \in held
    /\ name \in programs[p].kernels
    /\ heldKernels' = heldKernels \cup {<<p, name>>}
    /\ UNCHANGED <<files, pc, making, programs, cache, live, held, clKernels, openFiles,
                   asked, answer>>

\* Mutant: the destructor of a program releases its kernels, held or not.
KeptKernels_owned(p, alive) ==
    IF alive THEN programs[p].kernels ELSE {}

KeptKernels(p, alive) ==
    {n \in programs[p].kernels : alive \/ <<p, n>> \in heldKernels'}

\* What the destructors do once the handles have changed: clReleaseProgram for
\* a program nothing holds any more, whatever its handle is, and clReleaseKernel
\* for the kernels that go with it or are dropped later.
Destroy ==
    LET Alive(p) == p \in held' \cup InCache'
        dead == {p \in DOMAIN programs : ~Alive(p) /\ programs[p].cl /= "released"}
    IN  /\ programs' = [p \in DOMAIN programs |->
                            IF p \in dead THEN [programs[p] EXCEPT !.cl = "released"]
                            ELSE programs[p]]
        /\ clKernels' = {k \in clKernels : k[2] \in KeptKernels(k[1], Alive(k[1]))
                                           \/ k[2] \in programs[k[1]].unnamed}

DropProgram(p) ==
    /\ pc = "idle" /\ p \in held
    /\ held' = held \ {p}
    /\ UNCHANGED <<heldKernels, live, cache>>
    /\ Destroy
    /\ UNCHANGED <<files, pc, making, openFiles, asked, answer>>

DropKernel(k) ==
    /\ pc = "idle" /\ k \in heldKernels
    /\ heldKernels' = heldKernels \ {k}
    /\ UNCHANGED <<held, live, cache>>
    /\ Destroy
    /\ UNCHANGED <<files, pc, making, openFiles, asked, answer>>

\* The last handle to the context goes, and its cache with it.
DestroyContext ==
    /\ pc = "idle" /\ live
    /\ live' = FALSE /\ cache' = <<>>
    /\ UNCHANGED <<held, heldKernels>>
    /\ Destroy
    /\ UNCHANGED <<files, pc, making, openFiles, asked, answer>>

Next ==
    \/ \E src \in Srcs : ChangeFile(src) \/ \E o \in Options : CreateProgram(src, o)
    \/ StatSource \/ ReadSource \/ CreateWithSource \/ CreateKernels \/ NameKernels
    \/ \E p \in held : DropProgram(p) \/ \E n \in Kernels : GetKernel(p, n)
    \/ \E k \in heldKernels : DropKernel(k)
    \/ DestroyContext

Spec == Init /\ [][Next]_vars

------------------------------------------------------------------------------
(* Properties *)

Program == [src : Srcs, options : Options, text : FileStates \cup {"none"},
            cl : {"unset", "null", "live", "released"}, kernels : SUBSET Kernels,
            unnamed : SUBSET Kernels]

TypeOK ==
    /\ files \in [Srcs -> FileStates]
    /\ pc \in {"idle", "stat", "read", "create", "unbuilt", "kernels", "names"}
    /\ programs \in Seq(Program)
    /\ InCache \cup held \subseteq 1..Len(programs)
    /\ heldKernels \subseteq (1..Len(programs)) \X Kernels
    /\ clKernels \subseteq (1..Len(programs) + 1) \X Kernels
    /\ openFiles \in 0..Len(programs) + 1
    /\ answer \in 0..Len(programs)

\* createProgram returns the program of the source and the options it was given,
\* and as long as the context lives the one its cache returns from then on.
AnswerIsRight ==
    answer /= 0 =>
        /\ programs[answer].src = asked.src
        /\ programs[answer].options = asked.options
        /\ live => /\ CacheKey(asked.src, asked.options) \in DOMAIN cache
                   /\ cache[CacheKey(asked.src, asked.options)] = answer

Alive(p) == p \in held \cup InCache

\* A kernel somebody can still reach, directly or through a program, has not been
\* released: programs may go before their kernels, and the context before both.
ReachableIsUsable ==
    \A p \in 1..Len(programs) :
        /\ Alive(p) => programs[p].cl /= "released"
        /\ \A n \in programs[p].kernels :
               Alive(p) \/ <<p, n>> \in heldKernels => <<p, n>> \in clKernels

\* What nobody can reach any more has been released, but for the kernels whose
\* names could not be read.
UnreachableIsReleased ==
    pc = "idle" =>
        /\ \A p \in 1..Len(programs) : ~Alive(p) => programs[p].cl = "released"
        /\ \A k \in clKernels :
               Alive(k[1]) \/ k \in heldKernels \/ k[2] \in programs[k[1]].unnamed

\* The file that is left open is left open once for each source and options: the
\* cache keeps failed programs too, which are not tried again.
OneFilePerKey ==
    openFiles <= Cardinality({<<programs[p].src, programs[p].options>> : p \in DOMAIN programs})
                 + IF pc = "idle" THEN 0 ELSE 1
==============================================================================
