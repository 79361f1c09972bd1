------------------------------ MODULE ClQueue --------------------------------
(***************************************************************************)
(* opencl_command_queue and opencl_event of src/opencl.cc for any caller:  *)
(* the enqueue functions with their wait lists, the wait of a caller and   *)
(* the one that printing profiling information puts into every call, and   *)
(* finish.  GpuCompare has the one caller there is, with the data.         *)
(*                                                                         *)
(* The runtime may reject any command, whose event is then null, and a     *)
(* command it has accepted may fail later.  A command is an index of       *)
(* commands and stands for its event.                                      *)
(***************************************************************************)
EXTENDS Integers, Sequences

CONSTANTS
    MaxCommands,    \* bound on the commands accepted
    MaxTasks        \* bound on the calls of enqueueTask with a wait list

ASSUME BoundAssumption == MaxCommands \in Nat /\ MaxTasks \in Nat

VARIABLES
    inOrder,    \* the queue was created without out-of-order execution
    profiling,  \* printProfilingInfo
    commands,   \* the commands accepted: their wait lists, and what became of them
    held,       \* events the caller holds
    null,       \* the caller holds a null event
    waiting,    \* commands the caller is blocked on, inside a call
    arrays,     \* wait lists allocated and not deleted
    tasks,      \* history: calls of enqueueTask with a wait list
    crashed     \* a null event has been dereferenced

vars == <<inOrder, profiling, commands, held, null, waiting, arrays, tasks, crashed>>

Init ==
    /\ inOrder \in BOOLEAN
    /\ profiling = FALSE
    /\ commands = <<>>
    /\ held = {} /\ null = FALSE
    /\ waiting = {}
    /\ arrays = 0 /\ tasks = 0
    /\ crashed = FALSE

Running == waiting = {} /\ ~crashed
Numbers == 1..Len(commands)

SetPrintProfilingInfo(value) ==
    /\ Running
    /\ profiling' = value
    /\ UNCHANGED <<inOrder, commands, held, null, waiting, arrays, tasks, crashed>>

\* Mutant: a call that failed does not delete its wait list.
ArraysLeft_onerror(op, list, accepted) ==
    IF list /= {} /\ (op = "task" \/ ~accepted) THEN 1 ELSE 0

\* Wait lists left behind: enqueueTask alone never deletes its array.
ArraysLeft(op, list, accepted) == IF list /= {} /\ op = "task" THEN 1 ELSE 0

\* Mutant: the count is passed without the list for the calls on OpenGL objects.
Passed_gl(op, list) == IF op = "gl" THEN {} ELSE list

\* The events of the wait list, copied and passed to the runtime.
Passed(op, list) == list

\* Mutant: only reads wait before they print.
Blocks_read(op, blocking) == blocking \/ (profiling /\ op = "read")

\* A blocking read or write, or a call that prints how long the command took.
Blocks(op, blocking) == blocking \/ profiling

\* enqueueTask, enqueueNDRangeKernel, enqueueReadBuffer, enqueueWriteBuffer, and
\* enqueueAcquireGLObjects and enqueueReleaseGLObjects, which are alike.
Enqueue(op, blocking, list) ==
    /\ Running /\ Len(commands) < MaxCommands
    /\ list \subseteq held
    /\ blocking => op \in {"read", "write"}
    /\ op = "task" => tasks < MaxTasks
    /\ tasks' = tasks + IF op = "task" /\ list /= {} THEN 1 ELSE 0
    /\ \/ LET n == Len(commands) + 1
          IN  /\ commands' = Append(commands,
                     [list |-> list, passed |-> Passed(op, list),
                      awaited |-> blocking \/ profiling, status |-> "queued"])
              /\ held' = held \cup {n}
              /\ waiting' = IF Blocks(op, blocking) THEN {n} ELSE {}
              /\ arrays' = arrays + ArraysLeft(op, list, TRUE)
              /\ UNCHANGED null
       \/ /\ null' = TRUE
          /\ arrays' = arrays + ArraysLeft(op, list, FALSE)
          /\ UNCHANGED <<commands, held, waiting>>
    /\ UNCHANGED <<inOrder, profiling, crashed>>

\* A null event in a wait list, or waited for.
UseNull ==
    /\ Running /\ null
    /\ crashed' = TRUE
    /\ UNCHANGED <<inOrder, profiling, commands, held, null, waiting, arrays, tasks>>

\* The caller waits for the commands in set: opencl_event::wait for one, finish
\* for all there are.
WaitFor(set) ==
    /\ Running
    /\ waiting' = set
    /\ commands' = [i \in Numbers |-> IF i \in set THEN [commands[i] EXCEPT !.awaited = TRUE]
                                      ELSE commands[i]]
    /\ UNCHANGED <<inOrder, profiling, held, null, arrays, tasks, crashed>>

Wait(e) == e \in held /\ WaitFor({e})
Finish == commands /= <<>> /\ WaitFor(Numbers)

\* Mutant: a call comes back for a command that was successful only.
Over_complete(i) == commands[i].status = "complete"

Over(i) == commands[i].status /= "queued"

\* The call returns; an error of the wait is logged.
Resume ==
    /\ waiting /= {}
    /\ \A i \in waiting : Over(i)
    /\ waiting' = {}
    /\ UNCHANGED <<inOrder, profiling, commands, held, null, arrays, tasks, crashed>>

\* The last handle to an event goes; the runtime keeps what it needs of it.
DropEvent(e) ==
    /\ Running /\ e \in held
    /\ held' = held \ {e}
    /\ UNCHANGED <<inOrder, profiling, commands, null, waiting, arrays, tasks, crashed>>

\* The runtime executes a command whose wait list is over; without success if
\* that of one in the list was.
Ready(i) ==
    /\ commands[i].status = "queued"
    /\ \A j \in commands[i].passed : commands[j].status /= "queued"
    /\ inOrder => \A j \in 1..i - 1 : commands[j].status /= "queued"

Execute(i) ==
    /\ Ready(i)
    /\ \E s \in {"complete", "error"} :
           /\ s = "complete" => \A j \in commands[i].passed : commands[j].status = "complete"
           /\ commands' = [commands EXCEPT ![i].status = s]
    /\ UNCHANGED <<inOrder, profiling, held, null, waiting, arrays, tasks, crashed>>

Device == \E i \in Numbers : Execute(i)

Host ==
    \/ \E op \in {"task", "kernel", "read", "write", "gl"}, b \in BOOLEAN, list \in SUBSET held :
           Enqueue(op, b, list)
    \/ \E value \in BOOLEAN : SetPrintProfilingInfo(value)
    \/ UseNull
    \/ \E e \in held : Wait(e) \/ DropEvent(e)
    \/ Finish

Next == Host \/ Resume \/ Device

\* A call that waits has the runtime submit what is in the queue, so that the
\* device goes on; and a call that can return does.
Spec == Init /\ [][Next]_vars /\ WF_vars(Device) /\ WF_vars(Resume)

------------------------------------------------------------------------------
(* Properties *)

TypeOK ==
    /\ inOrder \in BOOLEAN /\ profiling \in BOOLEAN
    /\ Len(commands) <= MaxCommands
    /\ \A i \in Numbers : /\ commands[i].list \cup commands[i].passed \subseteq 1..i - 1
                          /\ commands[i].status \in {"queued", "complete", "error"}
    /\ held \cup waiting \subseteq Numbers
    /\ crashed => null

\* No command is successful whose wait list is not, whichever function it was
\* enqueued with and whatever became of the events since.
WaitListHonoured ==
    \A i \in Numbers : commands[i].status = "complete" =>
        \A j \in commands[i].list : commands[j].status = "complete"

\* When a call that blocks, prints profiling information, waits or finishes has
\* returned, the commands it was about are over.
AwaitedIsOver ==
    waiting = {} => \A i \in Numbers : commands[i].awaited => commands[i].status /= "queued"

\* The wait lists left behind are those of enqueueTask, on success and on failure.
OnlyTasksLeak == arrays = tasks

\* Every call returns: an event can only wait for events that were there before.
CallsReturn == waiting /= {} ~> waiting = {}
==============================================================================
