---------------------------- MODULE OpenclProofs ------------------------------
(***************************************************************************)
(* The command queue for any number of commands and any caller: wait lists *)
(* are honoured, a call that blocks returns after its command, and nothing *)
(* but enqueueTask leaves a wait list behind.  And programs, for any       *)
(* sources, options, kernels and failures: createProgram answers with the  *)
(* program asked for, and what is released is what nobody can reach.  And  *)
(* devices, for any installation and failures: init leaves whole platforms *)
(* and none of its arrays, on whichever path it returns; the extensions it *)
(* parses are the words of the text; getDevices lists what it is asked     *)
(* for, and initCL takes the first GPU with the largest work group.        *)
(***************************************************************************)
EXTENDS MCOpencl, SequenceTheorems, FiniteSetTheorems, NaturalsInduction,
        WellFoundedInduction, TLAPS

-----------------------------------------------------------------------------
(* The command queue *)

Command == [list : SUBSET Nat, passed : SUBSET Nat, awaited : BOOLEAN,
            status : {"queued", "complete", "error"}]

\* Events are those of commands that were there before, and reach the runtime.
CommandsInv ==
    /\ commands \in Seq(Command)
    /\ Len(commands) <= MaxCommands
    /\ \A i \in Numbers : /\ commands[i].list \subseteq 1..i - 1
                          /\ commands[i].passed = commands[i].list

\* What a caller can name, and null events.
HandlesInv ==
    /\ held \subseteq Numbers /\ waiting \subseteq Numbers
    /\ inOrder \in BOOLEAN /\ profiling \in BOOLEAN
    /\ crashed => null

\* A command somebody waits for and that is not over is one the call in progress
\* is blocked on.
BlockedInv ==
    \A i \in Numbers : commands[i].awaited /\ commands[i].status = "queued" => i \in waiting

Inv == CommandsInv /\ HandlesInv /\ BlockedInv /\ WaitListHonoured /\ OnlyTasksLeak

LEMMA InitInv == Init => Inv
<1> SUFFICES ASSUME Init PROVE Inv
  OBVIOUS
<1>1. commands = <<>> /\ Len(commands) = 0 /\ Numbers = {}
  BY DEF Init, Numbers
<1>2. commands \in Seq(Command)
  BY <1>1
<1>3. CommandsInv
  BY <1>1, <1>2, BoundAssumption DEF CommandsInv
<1>4. held = {} /\ waiting = {} /\ ~crashed
  BY DEF Init
<1>5. inOrder \in BOOLEAN /\ profiling \in BOOLEAN
  BY Zenon DEF Init
<1>6. HandlesInv
  BY <1>1, <1>4, <1>5, Zenon DEF HandlesInv
<1>7. BlockedInv /\ WaitListHonoured
  BY <1>1 DEF BlockedInv, WaitListHonoured
<1>8. OnlyTasksLeak
  BY DEF Init, OnlyTasksLeak
<1> QED
  BY <1>3, <1>6, <1>7, <1>8, Zenon DEF Inv

\* A new command waits for older ones only, and a call that waits for it is
\* blocked on it.
LEMMA EnqueueStep ==
    ASSUME Inv, NEW op, NEW b \in BOOLEAN, NEW list \in SUBSET held, Enqueue(op, b, list)
    PROVE  Inv'
<1> USE DEF Inv
<1>1. OnlyTasksLeak'
  BY DEF Enqueue, ArraysLeft, OnlyTasksLeak
<1>2. CASE UNCHANGED commands /\ UNCHANGED waiting /\ UNCHANGED held /\ null' = TRUE
  BY <1>1, <1>2 DEF Enqueue, CommandsInv, HandlesInv, BlockedInv, WaitListHonoured, Numbers
<1>3. ASSUME NEW n, n = Len(commands) + 1,
             commands' = Append(commands, [list |-> list, passed |-> Passed(op, list),
                                           awaited |-> b \/ profiling, status |-> "queued"]),
             held' = held \cup {n}, null' = null,
             waiting' = IF Blocks(op, b) THEN {n} ELSE {}
      PROVE  Inv'
  <2> DEFINE new == [list |-> list, passed |-> list, awaited |-> b \/ profiling,
                     status |-> "queued"]
  <2>1. /\ Running /\ Len(commands) < MaxCommands /\ Len(commands) \in Nat
        /\ commands' = Append(commands, new)
    BY <1>3 DEF Enqueue, Passed, CommandsInv
  <2>2. list \subseteq 1..Len(commands) /\ new \in Command
    <3>1. list \subseteq 1..Len(commands)
      BY DEF HandlesInv, Numbers
    <3>2. list \in SUBSET Nat
      BY <2>1, <3>1
    <3>3. (b \/ profiling) \in BOOLEAN
      BY Zenon
    <3> QED
      BY <3>1, <3>2, <3>3 DEF Command
  <2>3. /\ commands' \in Seq(Command) /\ Len(commands') = n
        /\ \A i \in Numbers : commands'[i] = commands[i]
        /\ commands'[n] = new
    BY <1>3, <2>1, <2>2, AppendProperties DEF CommandsInv, Numbers
  <2>4. /\ Numbers' = Numbers \cup {n} /\ n \notin Numbers /\ n - 1 = Len(commands)
        /\ \A i \in Numbers : i \in Nat /\ 1..i - 1 \subseteq Numbers
    BY <1>3, <2>1, <2>3 DEF Numbers
  <2> HIDE DEF new
  <2>5. CommandsInv'
    <3>1. Len(commands') <= MaxCommands
      BY <1>3, <2>1, <2>3, BoundAssumption
    <3>2. new.list = list /\ new.passed = list
      BY SMTT(30) DEF new
    <3> QED
      BY <2>2, <2>3, <2>4, <3>1, <3>2 DEF CommandsInv
  <2>6. HandlesInv'
    BY <1>3, <2>4 DEF HandlesInv, Enqueue
  <2>7. BlockedInv'
    <3>1. \A i \in Numbers : ~(commands[i].awaited /\ commands[i].status = "queued")
      BY <2>1 DEF BlockedInv, Running
    <3>2. new.awaited = (b \/ profiling)
      BY DEF new
    <3>3. new.awaited => n \in waiting'
      BY <1>3, <3>2 DEF Blocks
    <3> QED
      BY <2>3, <2>4, <3>1, <3>3 DEF BlockedInv
  <2>8. WaitListHonoured'
    <3>1. new.status = "queued"
      BY DEF new
    <3> QED
      BY SMTT(30), <2>3, <2>4, <3>1 DEF WaitListHonoured, CommandsInv
  <2> QED
    BY <1>1, <2>5, <2>6, <2>7, <2>8
<1> QED
  BY <1>2, <1>3 DEF Enqueue

\* Waiting changes no command but to note that it is awaited.
LEMMA WaitStep ==
    ASSUME Inv, NEW set \in SUBSET Numbers, WaitFor(set)
    PROVE  Inv'
<1> USE DEF Inv
<1>1. /\ commands' = [i \in Numbers |-> IF i \in set THEN [commands[i] EXCEPT !.awaited = TRUE]
                                         ELSE commands[i]]
      /\ waiting' = set /\ waiting = {}
      /\ UNCHANGED <<inOrder, profiling, held, null, arrays, tasks, crashed>>
  BY DEF WaitFor, Running
<1>2. Numbers = 1..Len(commands) /\ Len(commands) \in Nat
      /\ \A i \in Numbers : commands[i] \in Command
  BY DEF Numbers, CommandsInv
<1>3. \A i \in Numbers : /\ commands'[i] \in Command
                         /\ commands'[i].list = commands[i].list
                         /\ commands'[i].passed = commands[i].passed
                         /\ commands'[i].status = commands[i].status
                         /\ i \notin set => commands'[i] = commands[i]
  BY <1>1, <1>2 DEF Command
<1>4. commands' \in Seq(Command) /\ Len(commands') = Len(commands) /\ Numbers' = Numbers
  BY <1>1, <1>2, <1>3 DEF Numbers
<1>5. CommandsInv'
  BY SMTT(40), <1>3, <1>4 DEF CommandsInv
<1>6. HandlesInv'
  BY ZenonT(60), <1>1, <1>4 DEF HandlesInv
<1>7. BlockedInv'
  BY <1>1, <1>3, <1>4 DEF BlockedInv
<1>8. WaitListHonoured'
  <2>1. \A i \in Numbers : commands[i].list \subseteq Numbers
    BY <1>2 DEF CommandsInv
  <2> QED
    BY <1>3, <1>4, <2>1 DEF WaitListHonoured
<1> QED
  BY <1>1, <1>5, <1>6, <1>7, <1>8 DEF OnlyTasksLeak

\* A command is executed after its wait list.
LEMMA ExecuteStep ==
    ASSUME Inv, NEW k \in Numbers, Execute(k)
    PROVE  Inv'
<1> USE DEF Inv
<1>1. PICK s \in {"complete", "error"} :
          /\ s = "complete" => \A j \in commands[k].passed : commands[j].status = "complete"
          /\ commands' = [commands EXCEPT ![k].status = s]
  BY DEF Execute
<1>2. Numbers = 1..Len(commands) /\ Len(commands) \in Nat
      /\ \A i \in Numbers : commands[i] \in Command
  BY DEF Numbers, CommandsInv
<1>3. /\ commands' \in Seq(Command) /\ Len(commands') = Len(commands) /\ Numbers' = Numbers
      /\ \A i \in Numbers \ {k} : commands'[i] = commands[i]
      /\ commands'[k] = [commands[k] EXCEPT !.status = s]
  <2>1. [commands[k] EXCEPT !.status = s] \in Command
    BY <1>2 DEF Command
  <2>2. commands' = [commands EXCEPT ![k] = [commands[k] EXCEPT !.status = s]]
    BY <1>1
  <2>3. commands \in Seq(Command)
    BY DEF CommandsInv
  <2> QED
    BY <1>2, <2>1, <2>2, <2>3, ExceptSeq DEF Numbers
<1>4. /\ commands'[k].list = commands[k].list /\ commands'[k].passed = commands[k].passed
      /\ commands'[k].awaited = commands[k].awaited /\ commands'[k].status = s
      /\ commands[k].status = "queued"
  BY <1>2, <1>3 DEF Command, Execute, Ready
<1>5. CommandsInv'
  BY ZenonT(60), <1>3, <1>4 DEF CommandsInv
<1>6. HandlesInv'
  BY <1>3 DEF Execute, HandlesInv
<1>7. BlockedInv'
  BY <1>3, <1>4 DEF BlockedInv, Execute
<1>8. WaitListHonoured'
  <2>1. \A i \in Numbers : commands[i].list \subseteq Numbers /\ i \notin commands[i].list
    BY <1>2 DEF CommandsInv
  <2>2. \A j \in Numbers : commands[j].status = "complete" => commands'[j].status = "complete"
    BY <1>3, <1>4
  <2>3. ASSUME NEW i \in Numbers, commands'[i].status = "complete", NEW j \in commands'[i].list
        PROVE  commands[j].status = "complete" /\ j \in Numbers
    <3>1. CASE i = k
      BY <1>1, <1>4, <2>1, <2>3, <3>1 DEF CommandsInv
    <3>2. CASE i # k
      BY <1>3, <2>1, <2>3, <3>2 DEF WaitListHonoured
    <3> QED BY <3>1, <3>2
  <2> QED
    BY <1>3, <2>2, <2>3 DEF WaitListHonoured
<1> QED
  BY <1>5, <1>6, <1>7, <1>8 DEF OnlyTasksLeak, Execute

LEMMA NextInv == Inv /\ [Next]_vars => Inv'
<1> SUFFICES ASSUME Inv, [Next]_vars PROVE Inv'
  OBVIOUS
<1> USE DEF Inv, CommandsInv, HandlesInv, BlockedInv, WaitListHonoured, OnlyTasksLeak, Numbers
<1>1. ASSUME NEW op, NEW b \in BOOLEAN, NEW list \in SUBSET held, Enqueue(op, b, list)
      PROVE  Inv'
  BY <1>1, EnqueueStep
<1>2. ASSUME NEW value \in BOOLEAN, SetPrintProfilingInfo(value) PROVE Inv'
  BY <1>2 DEF SetPrintProfilingInfo
<1>3. CASE UseNull
  BY <1>3 DEF UseNull
<1>4. ASSUME NEW e \in held, Wait(e) PROVE Inv'
  <2>1. {e} \in SUBSET Numbers /\ WaitFor({e})
    BY <1>4 DEF Wait
  <2> QED BY <2>1, WaitStep
<1>5. ASSUME NEW e \in held, DropEvent(e) PROVE Inv'
  BY <1>5 DEF DropEvent
<1>6. CASE Finish
  <2>1. WaitFor(Numbers)
    BY <1>6 DEF Finish
  <2> QED BY <2>1, WaitStep
<1>7. CASE Resume
  BY <1>7 DEF Resume, Over
<1>8. CASE Device
  BY <1>8, ExecuteStep DEF Device
<1>9. CASE UNCHANGED vars
  BY <1>9 DEF vars
<1> QED
  BY <1>1, <1>2, <1>3, <1>4, <1>5, <1>6, <1>7, <1>8, <1>9 DEF Next, Host

LEMMA Invariance == Spec => []Inv
<1>1. Init => Inv
  BY InitInv
<1>2. Inv /\ [Next]_vars => Inv'
  BY NextInv
<1> QED BY <1>1, <1>2, PTL DEF Spec

LEMMA InvTyped == Inv => TypeOK
<1> SUFFICES ASSUME Inv PROVE TypeOK
  OBVIOUS
<1>1. ASSUME NEW i \in Numbers
      PROVE  commands[i].status \in {"queued", "complete", "error"}
  <2>1. commands \in Seq(Command) /\ i \in 1..Len(commands)
    BY DEF Inv, CommandsInv, Numbers
  <2>2. commands[i] \in Command
    BY <2>1, ElementOfSeq
  <2> QED
    BY <2>2 DEF Command
<1>2. ASSUME NEW i \in Numbers
      PROVE  commands[i].list \cup commands[i].passed \subseteq 1..i - 1
  <2>1. commands[i].list \subseteq 1..i - 1 /\ commands[i].passed = commands[i].list
    BY DEF Inv, CommandsInv
  <2> QED
    BY <2>1
<1>3. Len(commands) <= MaxCommands
  BY DEF Inv, CommandsInv
<1>4. /\ inOrder \in BOOLEAN /\ profiling \in BOOLEAN
      /\ held \cup waiting \subseteq Numbers /\ (crashed => null)
  BY Zenon DEF Inv, HandlesInv
<1> QED
  BY <1>1, <1>2, <1>3, <1>4, Zenon DEF TypeOK

\* The queue's variables keep their types and every event is one of a command
\* accepted before it is used (opencl_command_queue).
THEOREM TypeCorrect == Spec => []TypeOK
BY InvTyped, Invariance, PTL

\* No command succeeds before and without its wait list, whichever enqueue
\* function passed it, in order or not.
THEOREM WaitLists == Spec => []WaitListHonoured
<1>1. Inv => WaitListHonoured
  BY DEF Inv
<1> QED BY <1>1, Invariance, PTL

\* A call that blocks, prints profiling information, waits or finishes returns
\* after the commands it is about.
THEOREM ReturnsAfter == Spec => []AwaitedIsOver
<1>1. Inv => AwaitedIsOver
  BY DEF Inv, BlockedInv, AwaitedIsOver
<1> QED BY <1>1, Invariance, PTL

\* The wait lists nobody deletes are those of enqueueTask.
THEOREM TasksLeak == Spec => []OnlyTasksLeak
<1>1. Inv => OnlyTasksLeak
  BY DEF Inv
<1> QED BY <1>1, Invariance, PTL

------------------------------------------------------------------------------
(* Programs and kernels *)

Made == 1..Len(programs)
KeyOf(p) == Program!CacheKey(programs[p].src, programs[p].options)
Constructing == pc \in {"stat", "read", "create", "unbuilt", "kernels", "names"}

\* Programs are what the constructor has made of what a caller asked for, one for
\* each source and options.
ProgramsInv ==
    /\ programs \in Seq(Program!Program)
    /\ files \in [Srcs -> {"absent", "locked", "broken", "good"}]
    /\ \A p, q \in Made : /\ programs[p].src = programs[q].src
                          /\ programs[p].options = programs[q].options
                          => p = q

\* A program under construction is of the last source and options asked for, is
\* not in the cache and has no kernels yet.
MakingInv ==
    /\ pc \in {"idle", "stat", "read", "create", "unbuilt", "kernels", "names"}
    /\ Constructing =>
          /\ live /\ answer = 0
          /\ making \in Program!Program /\ making.cl /= "released"
          /\ making.kernels = {} /\ making.unnamed = {}
          /\ making.src = asked.src /\ making.options = asked.options
          /\ Program!CacheKey(asked.src, asked.options) \notin DOMAIN cache

\* The cache has every program under its key, until the context goes.
CacheInv ==
    /\ \A key \in DOMAIN cache : cache[key] \in Made /\ key = KeyOf(cache[key])
    /\ live => \A p \in Made : KeyOf(p) \in DOMAIN cache /\ cache[KeyOf(p)] = p

AnswerInv ==
    /\ answer \in Made \cup {0}
    /\ answer /= 0 => /\ programs[answer].src = asked.src
                      /\ programs[answer].options = asked.options

\* Every construction opens one file at most.
FilesInv ==
    /\ openFiles \in Nat
    /\ openFiles <= Len(programs)
                    + IF pc \in {"create", "unbuilt", "kernels", "names"} THEN 1 ELSE 0

\* Handles are to programs made and to kernels of theirs; the driver's kernels
\* besides to those the constructor is about to name.
HandlesOfProgram ==
    /\ held \subseteq Made
    /\ \A k \in heldKernels : k \in Made \X Kernels /\ k[2] \in programs[k[1]].kernels
    /\ \A k \in clKernels : k \in (Made \cup {Len(programs) + 1}) \X Kernels
    /\ \A n \in Kernels : <<Len(programs) + 1, n>> \in clKernels <=> pc = "names"

\* What nobody can reach any more is released, during a construction as well.
ReleasedInv ==
    /\ \A p \in Made : ~Program!Alive(p) => programs[p].cl = "released"
    /\ \A k \in clKernels : k[1] \in Made =>
           Program!Alive(k[1]) \/ k \in heldKernels \/ k[2] \in programs[k[1]].unnamed

ProgramInv ==
    /\ ProgramsInv /\ MakingInv /\ CacheInv /\ AnswerInv /\ FilesInv
    /\ HandlesOfProgram /\ ReleasedInv /\ Program!ReachableIsUsable

ProgramPart == part = "program" => ProgramInv

-----------------------------------------------------------------------------
\* Where the parts of a key are.
HasParts(key, first, comma, last) ==
    /\ Len(key) = Len(first) + 1 + Len(last)
    /\ \A i \in 1..Len(first) : key[i] = first[i]
    /\ key[Len(first) + 1] = comma
    /\ \A i \in 1..Len(last) : key[Len(first) + 1 + i] = last[i]

LEMMA ThreeParts ==
    ASSUME NEW S, NEW a \in Seq(S), NEW b \in Seq(S), NEW mark \in Seq(S), Len(mark) = 1
    PROVE  HasParts((b \o mark) \o a, b, mark[1], a)
<1> DEFINE front == b \o mark
<1>0. Len(b) \in Nat /\ Len(a) \in Nat
  OBVIOUS
<1>1. /\ front \in Seq(S) /\ Len(front) = Len(b) + 1 /\ front[Len(b) + 1] = mark[1]
      /\ \A i \in 1..Len(b) : front[i] = b[i]
  <2>1. /\ front \in Seq(S) /\ Len(front) = Len(b) + Len(mark)
        /\ \A i \in 1..Len(b) + Len(mark) :
               front[i] = IF i <= Len(b) THEN b[i] ELSE mark[i - Len(b)]
    BY ConcatProperties, Zenon
  <2> HIDE DEF front
  <2> QED
    BY <1>0, <2>1
<1> HIDE DEF front
<1>2. /\ Len(front \o a) = Len(b) + 1 + Len(a)
      /\ \A i \in 1..Len(b) : (front \o a)[i] = b[i]
      /\ (front \o a)[Len(b) + 1] = mark[1]
      /\ \A i \in 1..Len(a) : (front \o a)[Len(b) + 1 + i] = a[i]
  <2>1. /\ Len(front \o a) = Len(front) + Len(a)
        /\ \A i \in 1..Len(front) + Len(a) :
               (front \o a)[i] = IF i <= Len(front) THEN front[i] ELSE a[i - Len(front)]
    BY <1>1, ConcatProperties, Zenon
  <2> DEFINE key == front \o a
  <2> HIDE DEF key
  <2>2. \A i \in 1..Len(front) + Len(a) :
            key[i] = IF i <= Len(front) THEN front[i] ELSE a[i - Len(front)]
    BY <2>1 DEF key
  <2>3. /\ \A i \in 1..Len(b) : key[i] = b[i]
        /\ key[Len(b) + 1] = mark[1]
    <3>1. PICK m \in Nat : m = Len(b)
      BY <1>0
    <3>2. \A i \in 1..m + 1 : i \in 1..Len(front) + Len(a) /\ i <= Len(front)
      BY <1>0, <1>1, <3>1
    <3>3. \A i \in 1..m + 1 : key[i] = front[i]
      BY <2>2, <3>2
    <3>4. \A i \in 1..m : i \in 1..m + 1
      BY <3>1
    <3>5. m + 1 \in 1..m + 1
      BY <3>1
    <3>6. key[m + 1] = mark[1]
      BY <1>1, <3>1, <3>3, <3>5
    <3>7. \A i \in 1..m : key[i] = b[i]
      BY <1>1, <3>1, <3>3, <3>4
    <3> QED
      BY <3>1, <3>6, <3>7
  <2>4. ASSUME NEW i \in 1..Len(a) PROVE key[Len(b) + 1 + i] = a[i]
    <3>1. PICK n \in Nat : n = Len(b) + 1 + i
      BY <1>0
    <3>2. n \in 1..Len(front) + Len(a) /\ ~(n <= Len(front)) /\ n - Len(front) = i
      BY <1>0, <1>1, <3>1
    <3> QED
      BY <2>2, <3>1, <3>2
  <2> QED
    BY <1>1, <2>1, <2>3, <2>4 DEF key
<1> QED
  BY <1>2 DEF front, HasParts

\* The first separator of a key is the one behind the options.
LEMMA PartsOfKey ==
    ASSUME NEW S, NEW comma \in S,
           NEW s \in Seq(S), NEW t \in Seq(S), NEW o \in Seq(S), NEW q \in Seq(S),
           \A i \in 1..Len(o) : o[i] # comma, \A i \in 1..Len(q) : q[i] # comma,
           (o \o <<comma>>) \o s = (q \o <<comma>>) \o t
    PROVE  s = t /\ o = q
<1> DEFINE mark == <<comma>>
<1>1. mark \in Seq(S) /\ Len(mark) = 1 /\ mark[1] = comma
  OBVIOUS
<1>2. (o \o mark) \o s = (q \o mark) \o t
  OBVIOUS
<1> HIDE DEF mark
<1>3. PICK k : k = (o \o mark) \o s
  OBVIOUS
<1>4. /\ Len(k) = Len(o) + 1 + Len(s) /\ Len(k) = Len(q) + 1 + Len(t)
      /\ \A i \in 1..Len(o) : k[i] = o[i]
      /\ \A i \in 1..Len(q) : k[i] = q[i]
      /\ k[Len(o) + 1] = comma /\ k[Len(q) + 1] = comma
      /\ \A i \in 1..Len(s) : k[Len(o) + 1 + i] = s[i]
      /\ \A i \in 1..Len(t) : k[Len(q) + 1 + i] = t[i]
  <2>1. HasParts(k, o, comma, s)
    BY <1>1, <1>3, ThreeParts, Zenon
  <2>2. HasParts(k, q, comma, t)
    BY <1>1, <1>2, <1>3, ThreeParts, Zenon
  <2> QED
    BY <2>1, <2>2 DEF HasParts
<1>5. Len(o) \in Nat /\ Len(q) \in Nat /\ Len(s) \in Nat /\ Len(t) \in Nat
  OBVIOUS
<1>6. Len(o) = Len(q)
  <2>1. CASE Len(o) < Len(q)
    <3>1. Len(o) + 1 \in 1..Len(q)
      BY <1>5, <2>1
    <3> QED
      BY <1>4, <3>1
  <2>2. CASE Len(q) < Len(o)
    <3>1. Len(q) + 1 \in 1..Len(o)
      BY <1>5, <2>2
    <3> QED
      BY <1>4, <3>1
  <2> QED
    BY <1>5, <2>1, <2>2
<1>7. Len(s) = Len(t)
  BY <1>4, <1>5, <1>6
<1>8. o = q
  BY <1>4, <1>6, SeqEqual
<1>9. s = t
  <2>1. \A i \in 1..Len(s) : s[i] = t[i]
    BY <1>4, <1>6, <1>7
  <2> QED
    BY <1>7, <2>1, SeqEqual
<1> QED
  BY <1>8, <1>9

LEMMA KeysDiffer ==
    ASSUME NEW s \in Srcs, NEW t \in Srcs, NEW o \in Options, NEW q \in Options,
           Program!CacheKey(s, o) = Program!CacheKey(t, q)
    PROVE  s = t /\ o = q
<1>1. /\ s \in Seq(Characters) /\ t \in Seq(Characters)
      /\ o \in Seq(Characters) /\ q \in Seq(Characters)
      /\ \A i \in 1..Len(o) : o[i] # ","
      /\ \A i \in 1..Len(q) : q[i] # ","
  BY TextAssumption, Zenon
<1>2. "," \in Characters
  BY TextAssumption
<1>3. (o \o <<",">>) \o s = (q \o <<",">>) \o t
  BY DEF Program!CacheKey
<1> QED
  BY <1>1, <1>2, <1>3, PartsOfKey, Zenon

-----------------------------------------------------------------------------
\* The numbers of the programs when one more has been made.
LEMMA OneMore ==
    ASSUME ProgramsInv, NEW program \in Program!Program, programs' = Append(programs, program)
    PROVE  /\ Len(programs) \in Nat /\ Len(programs') = Len(programs) + 1
           /\ programs' \in Seq(Program!Program)
           /\ Made' = Made \cup {Len(programs) + 1} /\ Len(programs) + 1 \notin Made
           /\ \A p \in Made : programs'[p] = programs[p]
           /\ programs'[Len(programs) + 1] = program
<1>1. programs \in Seq(Program!Program)
  BY DEF ProgramsInv
<1>2. /\ Len(programs) \in Nat /\ Len(programs') = Len(programs) + 1
      /\ programs' \in Seq(Program!Program)
      /\ \A p \in 1..Len(programs) : programs'[p] = programs[p]
      /\ programs'[Len(programs) + 1] = program
  BY <1>1, AppendProperties
<1> QED
  BY <1>2 DEF Made

\* The cache when the program is put into it.
LEMMA CacheMore ==
    ASSUME NEW program, NEW number, cache' = Program!Cached(program, number),
           Program!CacheKey(program.src, program.options) \notin DOMAIN cache
    PROVE  /\ DOMAIN cache' = DOMAIN cache \cup {Program!CacheKey(program.src, program.options)}
           /\ \A key \in DOMAIN cache : cache'[key] = cache[key]
           /\ cache'[Program!CacheKey(program.src, program.options)] = number
           /\ Program!InCache' = Program!InCache \cup {number}
<1> DEFINE new == Program!CacheKey(program.src, program.options)
<1> HIDE DEF new
<1>1. cache' = [key \in DOMAIN cache \cup {new} |->
                   IF key \in DOMAIN cache THEN cache[key] ELSE number]
  BY DEF Program!Cached, new
<1>2. new \notin DOMAIN cache
  BY DEF new
<1>3. /\ DOMAIN cache' = DOMAIN cache \cup {new}
      /\ \A key \in DOMAIN cache : cache'[key] = cache[key]
      /\ cache'[new] = number
  BY <1>1, <1>2
<1>4. Program!InCache' = Program!InCache \cup {number}
  BY <1>3 DEF Program!InCache
<1> QED
  BY <1>3, <1>4 DEF new

\* The constructor returns, with whatever it has made.
LEMMA FinishStep ==
    ASSUME ProgramInv, Constructing, NEW program \in Program!Program,
           Program!Finish(program), program.cl /= "released",
           program.src = making.src, program.options = making.options,
           pc = "names" => program.kernels \cup program.unnamed = Kernels,
           pc /= "names" => program.kernels = {} /\ program.unnamed = {},
           UNCHANGED <<files, live, heldKernels, clKernels, openFiles, asked>>
    PROVE  ProgramInv'
<1> DEFINE key == Program!CacheKey(program.src, program.options)
<1>0. PICK new : new = Len(programs) + 1
  OBVIOUS
<1>1. /\ pc' = "idle" /\ programs' = Append(programs, program)
      /\ cache' = Program!Cached(program, new) /\ held' = held \cup {new} /\ answer' = new
  BY <1>0 DEF Program!Finish
<1>2. /\ live /\ answer = 0 /\ key \notin DOMAIN cache
      /\ program.src = asked.src /\ program.options = asked.options
  BY DEF ProgramInv, MakingInv
<1>3. /\ Len(programs) \in Nat /\ Len(programs') = Len(programs) + 1
      /\ programs' \in Seq(Program!Program)
      /\ Made' = Made \cup {new} /\ new \notin Made
      /\ \A p \in Made : programs'[p] = programs[p]
      /\ programs'[new] = program
  BY <1>0, <1>1, OneMore DEF ProgramInv
<1>4. /\ DOMAIN cache' = DOMAIN cache \cup {key}
      /\ \A k \in DOMAIN cache : cache'[k] = cache[k]
      /\ cache'[key] = new
      /\ Program!InCache' = Program!InCache \cup {new}
  BY <1>1, <1>2, CacheMore
<1>5. \A p \in Made : KeyOf(p)' = KeyOf(p)
  BY <1>3 DEF KeyOf
<1>6. Program!CacheKey(programs'[new].src, programs'[new].options) = key
  BY <1>3 DEF key
<1>7. \A p : Program!Alive(p)' <=> Program!Alive(p) \/ p = new
  BY <1>1, <1>4 DEF Program!Alive
<1> HIDE DEF key
<1>8. ProgramsInv'
  <2>1. ASSUME NEW p \in Made,
               programs[p].src = program.src /\ programs[p].options = program.options
        PROVE  FALSE
    <3>1. KeyOf(p) = key
      BY <2>1 DEF KeyOf, key
    <3> QED
      BY <1>2, <3>1 DEF ProgramInv, CacheInv
  <2>2. ASSUME NEW p \in Made', NEW q \in Made', programs'[p].src = programs'[q].src,
               programs'[p].options = programs'[q].options
        PROVE  p = q
    BY <1>3, <2>1, <2>2 DEF ProgramInv, ProgramsInv
  <2> QED
    BY <1>3, <2>2 DEF ProgramInv, ProgramsInv
<1>9. MakingInv'
  BY <1>1 DEF MakingInv, Constructing
<1>10. CacheInv'
  <2>1. ASSUME NEW k \in DOMAIN cache'
        PROVE  cache'[k] \in Made' /\ k = KeyOf(cache[k])'
    <3>1. KeyOf(cache[k])' = Program!CacheKey(programs'[cache'[k]].src,
                                              programs'[cache'[k]].options)
      BY DEF KeyOf
    <3>2. CASE k = key
      BY <1>3, <1>4, <1>6, <3>1, <3>2
    <3>3. CASE k \in DOMAIN cache
      <4>1. /\ cache[k] \in Made /\ k = KeyOf(cache[k])
            /\ cache'[k] = cache[k]
        BY <1>4, <3>3 DEF ProgramInv, CacheInv
      <4> QED
        BY <1>3, <3>1, <4>1 DEF KeyOf
    <3> QED
      BY <1>4, <3>2, <3>3
  <2>2. ASSUME NEW p \in Made'
        PROVE  KeyOf(p)' \in DOMAIN cache' /\ cache'[KeyOf(p)'] = p
    <3>1. KeyOf(p)' = Program!CacheKey(programs'[p].src, programs'[p].options)
      BY DEF KeyOf
    <3>2. CASE p = new
      BY <1>4, <1>6, <3>1, <3>2
    <3>3. CASE p \in Made
      <4>1. KeyOf(p) \in DOMAIN cache /\ cache[KeyOf(p)] = p
        BY <1>2, <3>3 DEF ProgramInv, CacheInv
      <4> QED
        BY <1>4, <1>5, <3>3, <4>1
    <3> QED
      BY <1>3, <3>2, <3>3
  <2> QED
    BY <2>1, <2>2 DEF CacheInv
<1>11. AnswerInv'
  BY <1>0, <1>1, <1>2, <1>3 DEF AnswerInv
<1>12. FilesInv'
  <2>1. openFiles \in Nat /\ openFiles <= Len(programs) + 1
    BY <1>3 DEF ProgramInv, FilesInv
  <2> QED
    BY <1>1, <1>3, <2>1 DEF FilesInv
<1>13. HandlesOfProgram'
  <2>1. held' \subseteq Made'
    BY <1>0, <1>1, <1>3 DEF ProgramInv, HandlesOfProgram
  <2>2. \A k \in heldKernels' : k \in Made' \X Kernels /\ k[2] \in programs'[k[1]].kernels
    BY <1>3 DEF ProgramInv, HandlesOfProgram
  <2>3. \A k \in clKernels : k \in Made' \X Kernels
    BY <1>0, <1>3 DEF ProgramInv, HandlesOfProgram
  <2>4. Len(programs') + 1 \notin Made'
    BY <1>0, <1>3 DEF Made
  <2> QED
    BY <1>1, <2>1, <2>2, <2>3, <2>4 DEF HandlesOfProgram
<1>14. ReleasedInv'
  BY <1>3, <1>7 DEF ProgramInv, ReleasedInv
<1>15. Program!ReachableIsUsable'
  <2>1. ASSUME NEW p \in Made'
        PROVE  /\ Program!Alive(p)' => programs'[p].cl /= "released"
               /\ \A n \in programs'[p].kernels :
                     Program!Alive(p)' \/ <<p, n>> \in heldKernels' => <<p, n>> \in clKernels'
    <3>1. CASE p = new
      <4>1. \A n \in program.kernels : pc = "names" /\ n \in Kernels
        BY DEF ProgramInv, Program!Program
      <4> QED
        BY <1>0, <1>3, <3>1, <4>1 DEF ProgramInv, HandlesOfProgram
    <3>2. CASE p \in Made /\ p # new
      BY <1>3, <1>7, <3>2 DEF ProgramInv, Program!ReachableIsUsable, Made
    <3> QED
      BY <1>3, <3>1, <3>2
  <2> QED
    BY <2>1 DEF Program!ReachableIsUsable, Made
<1> QED
  BY <1>8, <1>9, <1>10, <1>11, <1>12, <1>13, <1>14, <1>15 DEF ProgramInv

-----------------------------------------------------------------------------
\* createProgram answers from the cache or begins a construction.
LEMMA CreateProgramStep ==
    ASSUME ProgramInv, NEW src \in Srcs, NEW options \in Options,
           Program!CreateProgram(src, options)
    PROVE  ProgramInv'
<1> DEFINE key == Program!CacheKey(src, options)
<1>1. /\ pc = "idle" /\ live /\ asked' = [src |-> src, options |-> options]
      /\ UNCHANGED <<files, programs, cache, live, heldKernels, clKernels, openFiles>>
  BY DEF Program!CreateProgram
<1>2. Made' = Made /\ Program!InCache' = Program!InCache /\ \A p : KeyOf(p)' = KeyOf(p)
  BY <1>1 DEF Made, Program!InCache, KeyOf
<1>3. asked'.src = src /\ asked'.options = options
  BY <1>1
<1>4. CASE /\ key \in DOMAIN cache /\ answer' = cache[key] /\ held' = held \cup {answer'}
           /\ UNCHANGED <<pc, making>>
  <2>1. answer' \in Made /\ KeyOf(answer') = key /\ answer' \in Program!InCache
    BY <1>4 DEF ProgramInv, CacheInv, Program!InCache
  <2>2. answer' # 0
    <3>1. programs \in Seq(Program!Program)
      BY DEF ProgramInv, ProgramsInv
    <3> QED
      BY <2>1, <3>1 DEF Made
  <2>3. programs[answer'].src = src /\ programs[answer'].options = options
    <3>1. programs[answer'] \in Program!Program
      BY <2>1 DEF ProgramInv, ProgramsInv, Made
    <3>2. programs[answer'].src \in Srcs /\ programs[answer'].options \in Options
      BY <3>1 DEF Program!Program
    <3> QED
      BY <2>1, <3>2, KeysDiffer DEF KeyOf
  <2>4. ProgramsInv' /\ CacheInv' /\ FilesInv' /\ MakingInv'
    BY <1>1, <1>2, <1>4 DEF ProgramInv, ProgramsInv, CacheInv, FilesInv, MakingInv, Constructing
  <2>5. AnswerInv'
    BY <1>1, <1>2, <1>3, <2>1, <2>2, <2>3 DEF AnswerInv
  <2>6. \A p : Program!Alive(p)' <=> Program!Alive(p)
    BY <1>2, <1>4, <2>1 DEF Program!Alive
  <2>7. HandlesOfProgram' /\ ReleasedInv' /\ Program!ReachableIsUsable'
    BY <1>1, <1>2, <1>4, <2>1, <2>6
       DEF ProgramInv, HandlesOfProgram, ReleasedInv, Program!ReachableIsUsable
  <2> QED
    BY <2>4, <2>5, <2>7 DEF ProgramInv
<1>5. CASE /\ key \notin DOMAIN cache /\ pc' = "stat" /\ answer' = 0
           /\ making' = [Program!NoProgram EXCEPT !.src = src, !.options = options]
           /\ UNCHANGED held
  <2>1. making' \in Program!Program /\ making'.cl = "unset" /\ making'.kernels = {}
        /\ making'.unnamed = {} /\ making'.src = src /\ making'.options = options
    BY <1>5 DEF Program!NoProgram, Program!Program
  <2>2. MakingInv'
    BY <1>1, <1>3, <1>5, <2>1 DEF MakingInv
  <2>3. ProgramsInv' /\ CacheInv' /\ FilesInv' /\ AnswerInv'
    BY <1>1, <1>2, <1>5 DEF ProgramInv, ProgramsInv, CacheInv, FilesInv, AnswerInv
  <2>4. \A p : Program!Alive(p)' <=> Program!Alive(p)
    BY <1>2, <1>5 DEF Program!Alive
  <2>5. HandlesOfProgram' /\ ReleasedInv' /\ Program!ReachableIsUsable'
    BY <1>1, <1>2, <1>5, <2>4
       DEF ProgramInv, HandlesOfProgram, ReleasedInv, Program!ReachableIsUsable
  <2> QED
    BY <2>2, <2>3, <2>5 DEF ProgramInv
<1> QED
  BY <1>4, <1>5 DEF Program!CreateProgram

\* The constructor goes on to its next call.
LEMMA GoesOn ==
    ASSUME ProgramInv, Constructing, Constructing', pc /= "names", pc' /= "names",
           making' \in Program!Program, making'.cl /= "released",
           making'.kernels = {}, making'.unnamed = {},
           making'.src = making.src, making'.options = making.options,
           UNCHANGED <<files, programs, cache, held, answer, live, heldKernels, clKernels,
                       asked>>,
           FilesInv'
    PROVE  ProgramInv'
<1>1. Made' = Made /\ Program!InCache' = Program!InCache /\ \A p : KeyOf(p)' = KeyOf(p)
  BY DEF Made, Program!InCache, KeyOf
<1>2. \A p : Program!Alive(p)' <=> Program!Alive(p)
  BY <1>1 DEF Program!Alive
<1>3. MakingInv'
  BY DEF ProgramInv, MakingInv, Constructing
<1>4. ProgramsInv' /\ CacheInv' /\ AnswerInv'
  BY <1>1 DEF ProgramInv, ProgramsInv, CacheInv, AnswerInv
<1>5. HandlesOfProgram' /\ ReleasedInv' /\ Program!ReachableIsUsable'
  BY <1>1, <1>2 DEF ProgramInv, HandlesOfProgram, ReleasedInv, Program!ReachableIsUsable
<1> QED
  BY <1>3, <1>4, <1>5 DEF ProgramInv

LEMMA StatSourceStep ==
    ASSUME ProgramInv, Program!StatSource
    PROVE  ProgramInv'
<1>1. Constructing /\ pc = "stat"
  BY DEF Program!StatSource, Constructing
<1>2. /\ making \in Program!Program /\ making.cl /= "released"
      /\ making.kernels = {} /\ making.unnamed = {}
      /\ files[making.src] \in {"absent", "locked", "broken", "good"}
  BY <1>1 DEF ProgramInv, MakingInv, ProgramsInv, Program!Program
<1>3. CASE Program!Finish(making)
  BY <1>1, <1>2, <1>3, FinishStep DEF Program!StatSource
<1>4. CASE /\ pc' = "read" /\ making' = [making EXCEPT !.text = files[making.src]]
           /\ UNCHANGED <<programs, cache, held, answer>>
  <2>1. /\ making' \in Program!Program /\ making'.cl = making.cl
        /\ making'.kernels = making.kernels /\ making'.unnamed = making.unnamed
        /\ making'.src = making.src /\ making'.options = making.options
    BY <1>2, <1>4 DEF Program!Program
  <2>2. FilesInv'
    BY <1>1, <1>4 DEF ProgramInv, FilesInv, Program!StatSource
  <2> QED
    BY <1>1, <1>2, <1>4, <2>1, <2>2, GoesOn DEF Program!StatSource, Constructing
<1> QED
  BY <1>3, <1>4 DEF Program!StatSource

LEMMA ReadSourceStep ==
    ASSUME ProgramInv, Program!ReadSource
    PROVE  ProgramInv'
<1>1. Constructing /\ pc = "read"
  BY DEF Program!ReadSource, Constructing
<1>2. /\ making \in Program!Program /\ making.cl /= "released"
      /\ making.kernels = {} /\ making.unnamed = {}
  BY <1>1 DEF ProgramInv, MakingInv
<1>3. CASE Program!Finish(making) /\ UNCHANGED openFiles
  BY <1>1, <1>2, <1>3, FinishStep DEF Program!ReadSource
<1>4. ASSUME NEW text \in {"broken", "good"}, pc' = "create", openFiles' = openFiles + 1,
             making' = [making EXCEPT !.text = text],
             UNCHANGED <<programs, cache, held, answer>>
      PROVE  ProgramInv'
  <2>1. /\ making' \in Program!Program /\ making'.cl = making.cl
        /\ making'.kernels = making.kernels /\ making'.unnamed = making.unnamed
        /\ making'.src = making.src /\ making'.options = making.options
    BY <1>2, <1>4 DEF Program!Program
  <2>2. FilesInv'
    <3>1. openFiles \in Nat /\ openFiles <= Len(programs) /\ Len(programs) \in Nat
      BY <1>1 DEF ProgramInv, FilesInv, ProgramsInv
    <3> QED
      BY <1>4, <3>1 DEF FilesInv
  <2> QED
    BY <1>1, <1>2, <1>4, <2>1, <2>2, GoesOn DEF Program!ReadSource, Constructing
<1> QED
  BY <1>3, <1>4 DEF Program!ReadSource

LEMMA CreateWithSourceStep ==
    ASSUME ProgramInv, Program!CreateWithSource
    PROVE  ProgramInv'
<1>1. Constructing /\ pc = "create"
  BY DEF Program!CreateWithSource, Constructing
<1>2. /\ making \in Program!Program /\ making.cl /= "released"
      /\ making.kernels = {} /\ making.unnamed = {}
  BY <1>1 DEF ProgramInv, MakingInv
<1>3. ASSUME NEW program, program = [making EXCEPT !.cl = "null"], Program!Finish(program)
      PROVE  ProgramInv'
  <2>1. /\ program \in Program!Program /\ program.cl = "null"
        /\ program.kernels = making.kernels /\ program.unnamed = making.unnamed
        /\ program.src = making.src /\ program.options = making.options
    BY <1>2, <1>3 DEF Program!Program
  <2> QED
    BY <1>1, <1>2, <1>3, <2>1, FinishStep DEF Program!CreateWithSource
<1>4. CASE /\ pc' = IF making.text = "good" THEN "kernels" ELSE "unbuilt"
           /\ making' = [making EXCEPT !.cl = "live"]
           /\ UNCHANGED <<programs, cache, held, answer>>
  <2>1. /\ making' \in Program!Program /\ making'.cl = "live"
        /\ making'.kernels = making.kernels /\ making'.unnamed = making.unnamed
        /\ making'.src = making.src /\ making'.options = making.options
    BY <1>2, <1>4 DEF Program!Program
  <2>2. FilesInv'
    BY <1>1, <1>4 DEF ProgramInv, FilesInv, Program!CreateWithSource
  <2> QED
    BY <1>1, <1>2, <1>4, <2>1, <2>2, GoesOn DEF Program!CreateWithSource, Constructing
<1> QED
  BY <1>3, <1>4 DEF Program!CreateWithSource

LEMMA CreateKernelsStep ==
    ASSUME ProgramInv, Program!CreateKernels
    PROVE  ProgramInv'
<1>1. Constructing /\ pc \in {"kernels", "unbuilt"}
  BY DEF Program!CreateKernels, Constructing
<1>2. /\ making \in Program!Program /\ making.cl /= "released"
      /\ making.kernels = {} /\ making.unnamed = {}
  BY <1>1 DEF ProgramInv, MakingInv
<1>3. CASE Program!Finish(making) /\ UNCHANGED clKernels
  BY <1>1, <1>2, <1>3, FinishStep DEF Program!CreateKernels
<1>4. CASE /\ pc = "kernels" /\ pc' = "names"
           /\ clKernels' = clKernels \cup ({Len(programs) + 1} \X Kernels)
           /\ UNCHANGED <<making, programs, cache, held, answer>>
  <2>1. UNCHANGED <<files, live, heldKernels, openFiles, asked>>
    BY DEF Program!CreateKernels
  <2>2. Made' = Made /\ Program!InCache' = Program!InCache /\ \A p : KeyOf(p)' = KeyOf(p)
    BY <1>4 DEF Made, Program!InCache, KeyOf
  <2>3. \A p : Program!Alive(p)' <=> Program!Alive(p)
    BY <1>4, <2>2 DEF Program!Alive
  <2>4. MakingInv'
    BY <1>1, <1>4, <2>1 DEF ProgramInv, MakingInv, Constructing
  <2>5. ProgramsInv' /\ CacheInv' /\ AnswerInv' /\ FilesInv'
    BY <1>4, <2>1, <2>2 DEF ProgramInv, ProgramsInv, CacheInv, AnswerInv, FilesInv
  <2>6. Len(programs) + 1 \notin Made
    <3>1. Len(programs) \in Nat
      BY DEF ProgramInv, ProgramsInv
    <3> QED
      BY <3>1 DEF Made
  <2>7. HandlesOfProgram'
    BY <1>4, <2>1, <2>2 DEF ProgramInv, HandlesOfProgram
  <2>8. ReleasedInv'
    BY <1>4, <2>1, <2>2, <2>3, <2>6 DEF ProgramInv, ReleasedInv
  <2>9. Program!ReachableIsUsable'
    BY <1>4, <2>1, <2>2, <2>3 DEF ProgramInv, Program!ReachableIsUsable
  <2> QED
    BY <2>4, <2>5, <2>7, <2>8, <2>9 DEF ProgramInv
<1> QED
  BY <1>3, <1>4 DEF Program!CreateKernels

LEMMA NameKernelsStep ==
    ASSUME ProgramInv, Program!NameKernels
    PROVE  ProgramInv'
<1>1. Constructing /\ pc = "names"
  BY DEF Program!NameKernels, Constructing
<1>2. making \in Program!Program /\ making.cl /= "released"
  BY <1>1 DEF ProgramInv, MakingInv
<1>3. ASSUME NEW unnamed \in SUBSET Kernels, NEW program,
             program = [making EXCEPT !.kernels = Kernels \ unnamed, !.unnamed = unnamed],
             Program!Finish(program)
      PROVE  ProgramInv'
  <2>1. /\ program \in Program!Program /\ program.cl = making.cl
        /\ program.kernels = Kernels \ unnamed /\ program.unnamed = unnamed
        /\ program.src = making.src /\ program.options = making.options
    BY <1>2, <1>3 DEF Program!Program
  <2>2. program.kernels \cup program.unnamed = Kernels
    BY <2>1
  <2> QED
    BY <1>1, <1>2, <1>3, <2>1, <2>2, FinishStep DEF Program!NameKernels
<1> QED
  BY <1>3 DEF Program!NameKernels

LEMMA ChangeFileStep ==
    ASSUME ProgramInv, NEW src \in Srcs, Program!ChangeFile(src)
    PROVE  ProgramInv'
<1>1. /\ UNCHANGED <<pc, making, programs, clKernels, openFiles, asked, answer>>
      /\ UNCHANGED <<held, heldKernels, live, cache>>
  BY DEF Program!ChangeFile, Program!handles
<1>2. files' \in [Srcs -> {"absent", "locked", "broken", "good"}]
  BY DEF Program!ChangeFile, ProgramInv, ProgramsInv
<1>3. Made' = Made /\ Program!InCache' = Program!InCache /\ \A p : KeyOf(p)' = KeyOf(p)
  BY <1>1 DEF Made, Program!InCache, KeyOf
<1>4. \A p : Program!Alive(p)' <=> Program!Alive(p)
  BY <1>1, <1>3 DEF Program!Alive
<1>5. ProgramsInv' /\ MakingInv' /\ CacheInv' /\ AnswerInv' /\ FilesInv'
  BY <1>1, <1>2, <1>3
     DEF ProgramInv, ProgramsInv, MakingInv, Constructing, CacheInv, AnswerInv, FilesInv
<1>6. HandlesOfProgram' /\ ReleasedInv' /\ Program!ReachableIsUsable'
  BY <1>1, <1>3, <1>4 DEF ProgramInv, HandlesOfProgram, ReleasedInv, Program!ReachableIsUsable
<1> QED
  BY <1>5, <1>6 DEF ProgramInv

LEMMA GetKernelStep ==
    ASSUME ProgramInv, NEW p \in held, NEW name, Program!GetKernel(p, name)
    PROVE  ProgramInv'
<1>1. /\ UNCHANGED <<files, pc, making, programs, cache, live, held, clKernels, openFiles,
                     asked, answer>>
      /\ name \in programs[p].kernels /\ heldKernels' = heldKernels \cup {<<p, name>>}
  BY DEF Program!GetKernel
<1>2. Made' = Made /\ Program!InCache' = Program!InCache /\ \A q : KeyOf(q)' = KeyOf(q)
  BY <1>1 DEF Made, Program!InCache, KeyOf
<1>3. \A q : Program!Alive(q)' <=> Program!Alive(q)
  BY <1>1, <1>2 DEF Program!Alive
<1>4. ProgramsInv' /\ MakingInv' /\ CacheInv' /\ AnswerInv' /\ FilesInv'
  BY <1>1, <1>2
     DEF ProgramInv, ProgramsInv, MakingInv, Constructing, CacheInv, AnswerInv, FilesInv
<1>5. p \in Made /\ name \in Kernels /\ Program!Alive(p)
  <2>1. p \in Made /\ programs[p] \in Program!Program
    BY DEF ProgramInv, HandlesOfProgram, ProgramsInv, Made
  <2> QED
    BY <1>1, <2>1 DEF Program!Program, Program!Alive
<1>6. HandlesOfProgram'
  BY <1>1, <1>2, <1>5 DEF ProgramInv, HandlesOfProgram
<1>7. ReleasedInv'
  BY <1>1, <1>2, <1>3 DEF ProgramInv, ReleasedInv
<1>8. Program!ReachableIsUsable'
  <2>1. ASSUME NEW q \in 1..Len(programs), NEW n \in programs[q].kernels,
               Program!Alive(q) \/ <<q, n>> \in heldKernels'
        PROVE  <<q, n>> \in clKernels
    <3>1. CASE q = p
      BY <1>5, <2>1, <3>1 DEF ProgramInv, Program!ReachableIsUsable
    <3>2. CASE q # p
      BY <1>1, <2>1, <3>2 DEF ProgramInv, Program!ReachableIsUsable
    <3> QED BY <3>1, <3>2
  <2> QED
    BY <1>1, <1>3, <2>1 DEF ProgramInv, Program!ReachableIsUsable
<1> QED
  BY <1>4, <1>6, <1>7, <1>8 DEF ProgramInv

\* Handles go, and with them what no handle reaches any more.
LEMMA DestroyStep ==
    ASSUME ProgramInv, pc = "idle", Program!Destroy,
           held' \subseteq held, heldKernels' \subseteq heldKernels,
           \/ cache' = cache /\ live' = live
           \/ cache' = <<>> /\ live' = FALSE,
           UNCHANGED <<files, pc, making, openFiles, asked, answer>>
    PROVE  ProgramInv'
<1>1. /\ programs \in Seq(Program!Program) /\ Len(programs) \in Nat
      /\ DOMAIN programs = Made /\ \A p \in Made : programs[p] \in Program!Program
  BY DEF ProgramInv, ProgramsInv, Made
<1>2. Program!InCache' \subseteq Program!InCache
  BY DEF Program!InCache
<1>3. \A p : Program!Alive(p)' <=> p \in held' \cup Program!InCache'
  BY DEF Program!Alive
<1>4. \A p : Program!Alive(p)' => Program!Alive(p)
  BY <1>2 DEF Program!Alive
<1>5. PICK dead : dead = {p \in Made : ~Program!Alive(p)' /\ programs[p].cl /= "released"}
  OBVIOUS
<1>6. programs' = [p \in Made |-> IF p \in dead THEN [programs[p] EXCEPT !.cl = "released"]
                                  ELSE programs[p]]
  BY <1>1, <1>3, <1>5 DEF Program!Destroy
<1>7. \A k : k \in clKernels' <=>
          /\ k \in clKernels
          /\ \/ k[2] \in programs[k[1]].kernels
                /\ (Program!Alive(k[1])' \/ <<k[1], k[2]>> \in heldKernels')
             \/ k[2] \in programs[k[1]].unnamed
  BY <1>3 DEF Program!Destroy, Program!KeptKernels
<1>8. \A p \in Made :
          /\ programs'[p] \in Program!Program
          /\ programs'[p].src = programs[p].src /\ programs'[p].options = programs[p].options
          /\ programs'[p].kernels = programs[p].kernels
          /\ programs'[p].unnamed = programs[p].unnamed
          /\ Program!Alive(p)' => programs'[p].cl = programs[p].cl
          /\ ~Program!Alive(p)' => programs'[p].cl = "released"
  BY <1>1, <1>5, <1>6 DEF Program!Program
<1>9. /\ programs' \in Seq(Program!Program) /\ Len(programs') = Len(programs)
      /\ Made' = Made
  <2>1. PICK n \in Nat : n = Len(programs)
    BY <1>1
  <2>2. \A p \in 1..n : programs'[p] \in Program!Program
    BY <1>8, <2>1 DEF Made
  <2>3. programs' = [p \in 1..n |-> programs'[p]]
    BY <1>6, <2>1 DEF Made
  <2>4. programs' \in Seq(Program!Program) /\ Len(programs') = n
    BY <2>2, <2>3
  <2> QED
    BY <2>1, <2>4 DEF Made
<1>10. \A p \in Made : KeyOf(p)' = KeyOf(p)
  BY <1>8 DEF KeyOf
<1>11. ProgramsInv'
  BY <1>8, <1>9 DEF ProgramInv, ProgramsInv
<1>12. MakingInv' /\ FilesInv'
  BY <1>9 DEF ProgramInv, MakingInv, Constructing, FilesInv
<1>13. CacheInv'
  <2>1. CASE cache' = <<>> /\ live' = FALSE
    BY <2>1 DEF CacheInv
  <2>2. CASE cache' = cache /\ live' = live
    <3>1. \A key \in DOMAIN cache :
              cache[key] \in Made /\ KeyOf(cache[key])' = KeyOf(cache[key])
      <4> TAKE key \in DOMAIN cache
      <4>1. PICK p \in Made : p = cache[key]
        BY DEF ProgramInv, CacheInv
      <4>2. KeyOf(cache[key])' = Program!CacheKey(programs'[p].src, programs'[p].options)
        BY <2>2, <4>1 DEF KeyOf
      <4> QED
        BY <1>8, <4>1, <4>2 DEF KeyOf
    <3> QED
      BY <1>9, <1>10, <2>2, <3>1 DEF ProgramInv, CacheInv
  <2> QED
    BY <2>1, <2>2
<1>14. AnswerInv'
  BY <1>8, <1>9 DEF ProgramInv, AnswerInv
<1>15. \A k \in clKernels : k[1] \in Made /\ k[2] \in Kernels /\ k = <<k[1], k[2]>>
  BY DEF ProgramInv, HandlesOfProgram
<1>16. HandlesOfProgram'
  BY <1>7, <1>8, <1>9 DEF ProgramInv, HandlesOfProgram
<1>17. ReleasedInv'
  BY <1>7, <1>8, <1>9, <1>15 DEF ReleasedInv
<1>18. Program!ReachableIsUsable'
  <2>1. ASSUME NEW p \in Made, Program!Alive(p)' PROVE programs'[p].cl /= "released"
    BY <1>4, <1>8, <2>1 DEF ProgramInv, Program!ReachableIsUsable, Made
  <2>2. ASSUME NEW p \in Made, NEW n \in programs[p].kernels,
               Program!Alive(p)' \/ <<p, n>> \in heldKernels'
        PROVE  <<p, n>> \in clKernels'
    <3>1. <<p, n>> \in clKernels
      BY <1>4, <2>2 DEF ProgramInv, Program!ReachableIsUsable, Made
    <3> QED
      BY <1>7, <2>2, <3>1
  <2> QED
    BY <1>8, <1>9, <2>1, <2>2 DEF Program!ReachableIsUsable, Made
<1> QED
  BY <1>11, <1>12, <1>13, <1>14, <1>16, <1>17, <1>18 DEF ProgramInv

LEMMA DropStep ==
    ASSUME ProgramInv,
           \/ \E p \in held : Program!DropProgram(p)
           \/ \E k \in heldKernels : Program!DropKernel(k)
           \/ Program!DestroyContext
    PROVE  ProgramInv'
<1>1. ASSUME NEW p \in held, Program!DropProgram(p) PROVE ProgramInv'
  BY <1>1, DestroyStep DEF Program!DropProgram
<1>2. ASSUME NEW k \in heldKernels, Program!DropKernel(k) PROVE ProgramInv'
  BY <1>2, DestroyStep DEF Program!DropKernel
<1>3. CASE Program!DestroyContext
  BY <1>3, DestroyStep DEF Program!DestroyContext
<1> QED
  BY <1>1, <1>2, <1>3

LEMMA InitProgram == Program!Init => ProgramInv
<1> SUFFICES ASSUME Program!Init PROVE ProgramInv
  OBVIOUS
<1>1. /\ pc = "idle" /\ programs = <<>> /\ cache = <<>> /\ live = TRUE /\ held = {}
      /\ heldKernels = {} /\ clKernels = {} /\ openFiles = 0 /\ answer = 0
      /\ files \in [Srcs -> {"absent", "locked", "broken", "good"}]
  BY DEF Program!Init
<1>2. /\ Len(programs) = 0 /\ Made = {} /\ DOMAIN cache = {}
      /\ programs \in Seq(Program!Program)
  BY <1>1 DEF Made
<1>3. ProgramsInv /\ MakingInv /\ CacheInv
  BY <1>1, <1>2 DEF ProgramsInv, MakingInv, Constructing, CacheInv
<1>4. AnswerInv /\ FilesInv /\ HandlesOfProgram /\ ReleasedInv
  BY <1>1, <1>2 DEF AnswerInv, FilesInv, HandlesOfProgram, ReleasedInv
<1>5. Program!ReachableIsUsable
  BY <1>2 DEF Program!ReachableIsUsable
<1> QED
  BY <1>3, <1>4, <1>5 DEF ProgramInv

LEMMA NextProgram == ProgramInv /\ Program!Next => ProgramInv'
<1> SUFFICES ASSUME ProgramInv, Program!Next PROVE ProgramInv'
  OBVIOUS
<1>1. ASSUME NEW src \in Srcs, Program!ChangeFile(src) PROVE ProgramInv'
  BY <1>1, ChangeFileStep
<1>2. ASSUME NEW src \in Srcs, NEW o \in Options, Program!CreateProgram(src, o)
      PROVE  ProgramInv'
  BY <1>2, CreateProgramStep
<1>3. CASE Program!StatSource \/ Program!ReadSource \/ Program!CreateWithSource
           \/ Program!CreateKernels \/ Program!NameKernels
  BY <1>3, StatSourceStep, ReadSourceStep, CreateWithSourceStep, CreateKernelsStep,
     NameKernelsStep
<1>4. ASSUME NEW p \in held, NEW n \in Kernels, Program!GetKernel(p, n) PROVE ProgramInv'
  BY <1>4, GetKernelStep
<1>5. CASE \/ \E p \in held : Program!DropProgram(p)
           \/ \E k \in heldKernels : Program!DropKernel(k)
           \/ Program!DestroyContext
  BY <1>5, DropStep
<1> QED
  BY <1>1, <1>2, <1>3, <1>4, <1>5 DEF Program!Next

\* One program for each source and options: the pairs are as many.
LEMMA PairsCounted ==
    ASSUME ProgramsInv
    PROVE  Cardinality({<<programs[p].src, programs[p].options>> : p \in DOMAIN programs})
               = Len(programs)
<1> DEFINE pair == [p \in Made |-> <<programs[p].src, programs[p].options>>]
           pairs == {<<programs[p].src, programs[p].options>> : p \in Made}
<1>1. Len(programs) \in Nat /\ DOMAIN programs = Made
  BY DEF ProgramsInv, Made
<1>2. pair \in Bijection(Made, pairs)
  <2>1. pair \in [Made -> pairs]
    OBVIOUS
  <2>2. \A p, q \in Made : pair[p] = pair[q] => p = q
    BY DEF ProgramsInv
  <2>3. \A t \in pairs : \E p \in Made : pair[p] = t
    OBVIOUS
  <2> HIDE DEF pair, pairs
  <2> QED
    BY <2>1, <2>2, <2>3 DEF Bijection, Injection, Surjection, IsInjective
<1>3. IsFiniteSet(Made) /\ Cardinality(Made) = Len(programs)
  <2>1. PICK n \in Nat : n = Len(programs) /\ Made = 1..n
    BY <1>1 DEF Made
  <2>2. IsFiniteSet(1..n) /\ Cardinality(1..n) = IF 1 > n THEN 0 ELSE n - 1 + 1
    <3>1. 1 \in Int /\ n \in Int
      BY <2>1
    <3> QED
      BY <3>1, FS_Interval, Zenon
  <2>3. Cardinality(1..n) = n
    BY <2>1, <2>2
  <2> QED
    BY SMTT(30), <2>1, <2>2, <2>3
<1> HIDE DEF pair, pairs
<1>4. ExistsBijection(Made, pairs)
  BY <1>2 DEF ExistsBijection
<1>5. Cardinality(Made) = Cardinality(pairs)
  BY <1>3, <1>4, FS_Bijection
<1> QED
  BY <1>1, <1>3, <1>5 DEF pairs

-----------------------------------------------------------------------------
(* Devices *)

\* How many devices platform p has.
Installed(p) == Len(system[p])

\* The list has the devices of the first n platforms and the first k of the next.
Lists(n, k) ==
    /\ \A i \in 1..Len(devices) :
           \/ devices[i].platform \in 1..n
              /\ devices[i].index \in 0..Installed(devices[i].platform) - 1
           \/ devices[i].platform = n + 1 /\ devices[i].index \in 0..k - 1
    /\ \A p \in 1..n : \A j \in 0..Installed(p) - 1 :
           \E i \in 1..Len(devices) : Devices!Where(devices[i]) = <<p, j>>
    /\ \A j \in 0..k - 1 :
           \E i \in 1..Len(devices) : Devices!Where(devices[i]) = <<n + 1, j>>
    /\ \A i, j \in 1..Len(devices) : i < j => Devices!Before(devices[i], devices[j])

\* How far init has come, and how many of its arrays there are.
ReadingInv ==
    /\ system \in Systems
    /\ pc \in {"start", "platform", "device", "extensions", "ready", "select", "choose",
              "exit", "crashed", "running"}
    /\ platforms \in 0..Len(system)
    /\ Len(devices) \in Nat /\ devices = [i \in 1..Len(devices) |-> devices[i]]
    /\ ~Devices!Returned => ok = FALSE
    /\ pc = "start" => arrays = 0 /\ platforms = 0
    /\ pc = "platform" => arrays = 1
    /\ pc \in {"device", "extensions"} => arrays = 2 /\ platforms \in Nat \ {0}
    /\ pc = "device" => deviceIndex \in 0..Installed(platforms) - 1
    /\ pc = "extensions" => deviceIndex \in 1..Installed(platforms)

ListInv ==
    /\ pc \in {"start", "platform"} => Devices!ListsPlatforms(platforms)
    /\ pc \in {"device", "extensions"} => Lists(platforms - 1, deviceIndex)

\* What has been read of a device, or could not be.
Sane(d) ==
    /\ d = [platform |-> d.platform, index |-> d.index, unread |-> d.unread, name |-> d.name,
            text |-> d.text, type |-> d.type, available |-> d.available, size |-> d.size,
            extensions |-> d.extensions]
    /\ d.platform \in Nat \ {0} /\ d.available \in BOOLEAN
    /\ d.type \in Types /\ d.size \in 0..MaxSize
    /\ "size" \notin d.unread => d.size >= 1
    /\ d.name \notin {"any", "gpu", "cpu", "all"}
    /\ d.text \in Seq(Characters)

\* The extension is a word of the text that begins at i.
WordAt(text, i) ==
    /\ text[i] \in {"g", "G"}
    /\ i = 1 \/ text[i - 1] = Devices!Space
    /\ i = Len(text) \/ text[i + 1] = Devices!Space

Parsed(d) == <<"g">> \in d.extensions <=> Devices!Reports(d)

\* Of the words of the text, those before at.
ParsedUpTo(d) ==
    /\ at \in 1..Len(d.text) + 1
    /\ at = 1 \/ d.text[at - 1] = Devices!Space
    /\ <<"g">> \in d.extensions <=> \E i \in 1..at - 1 : WordAt(d.text, i)

FieldsInv ==
    /\ \A i \in 1..Len(devices) : Sane(devices[i])
    /\ \A i \in 1..Len(devices) :
           (pc = "extensions" /\ i = Len(devices)) \/ Parsed(devices[i])
    /\ pc = "extensions" => Len(devices) # 0 /\ ParsedUpTo(devices[Len(devices)])

ReadInv ==
    ReadingInv /\ ListInv /\ FieldsInv /\ Devices!ArraysFreed /\ Devices!WholePlatforms

\* The loop of getDevices: what it has listed of the devices before at.
Below(n) == {i \in Devices!Among(asked) : i < n}
FirstAmong(f) == Devices!IsFirst(f, Devices!Among(asked))

SelectInv ==
    /\ at \in 1..Len(devices) + 1
    /\ asked = "any" =>
           /\ platform = 0
           /\ \/ listed = <<>> /\ Below(at) = {}
              \/ /\ at = Len(devices) + 1
                 /\ \E f \in 1..Len(devices) : FirstAmong(f) /\ listed = <<f>>
    /\ asked \in {"gpu", "cpu"} => platform = 0 /\ Devices!ListOf(listed, Below(at))
    /\ asked \notin {"any", "gpu", "cpu"} =>
           \/ platform = 0 /\ listed = <<>> /\ Below(at) = {}
           \/ \E f \in 1..at - 1 :
                  /\ FirstAmong(f) /\ platform = devices[f].platform
                  /\ Devices!ListOf(listed, {i \in Below(at) : devices[i].platform = platform})

\* The loop of initCL: the first of the largest before place n of the list.
BestOf(n) ==
    \/ chosen = 0 /\ \A k \in 1..n - 1 : devices[listed[k]].size = 0
    \/ /\ chosen # 0
       /\ \E j \in 1..n - 1 :
              /\ listed[j] = chosen
              /\ \A k \in 1..n - 1 : devices[listed[k]].size <= devices[chosen].size
              /\ \A k \in 1..j - 1 : devices[listed[k]].size < devices[chosen].size

CallInv ==
    /\ ~Devices!Returned => asked = "none" /\ listed = <<>> /\ chosen = 0 /\ contexts = <<>>
    /\ listed \in Seq(1..Len(devices)) /\ chosen \in 0..Len(devices)
    /\ Len(contexts) \in Nat /\ contexts = [j \in 1..Len(contexts) |-> contexts[j]]
    /\ pc = "select" => SelectInv
    /\ Devices!ListedAsAsked
    /\ chosen = 0 \/ pc \in {"choose", "running"}
    /\ pc = "choose" => at \in 1..Len(listed) + 1 /\ BestOf(at)
    /\ pc = "running" => chosen # 0
    /\ pc \in {"running", "crashed"} => BestOf(Len(listed) + 1)

DevicesInv == ReadInv /\ CallInv /\ Devices!SharingAsReported

-----------------------------------------------------------------------------
LEMMA LeastElement ==
    ASSUME NEW U, U \subseteq Nat, U # {}
    PROVE  \E m \in U : \A k \in U : m <= k
<1> DEFINE R == OpToRel(<, Nat)
<1>1. IsWellFoundedOn(R, Nat)
  BY NatLessThanWellFounded
<1>2. ASSUME NEW i \in Nat, NEW j \in Nat, i < j
      PROVE  <<i, j>> \in R
  BY <1>2 DEF OpToRel
<1> HIDE DEF R
<1>3. PICK m \in U : \A k \in U : ~(<<k, m>> \in R)
  BY <1>1, WFMin
<1>4. ASSUME NEW k \in U PROVE m <= k
  <2>1. m \in Nat /\ k \in Nat
    OBVIOUS
  <2>2. ~(k < m)
    BY <1>2, <1>3, <2>1
  <2> QED BY <2>1, <2>2
<1> QED BY <1>4


\* A space is no letter.
LEMMA SpaceIsNoLetter == Devices!Space \notin {"g", "G"}
BY Zenon DEF Devices!Space

\* A word of the text begins at c and ends before stop.
IsWord(text, c, stop) ==
    /\ c \in Nat /\ stop \in Nat /\ 1 <= c /\ c <= stop /\ stop <= Len(text) + 1
    /\ c = 1 \/ text[c - 1] = Devices!Space
    /\ stop <= Len(text) => text[stop] = Devices!Space
    /\ \A i \in Nat : c <= i /\ i < stop => text[i] # Devices!Space

\* The space parseExtensions finds, or the end of the text, ends the word at c.
LEMMA NextWord ==
    ASSUME NEW text \in Seq(Characters), NEW c \in Nat, 1 <= c, c <= Len(text) + 1,
           c = 1 \/ text[c - 1] = Devices!Space,
           NEW stop, stop = Devices!NextSpace(text, c)
    PROVE  IsWord(text, c, stop)
<1> DEFINE spaces == {i \in c..Len(text) : text[i] = Devices!Space}
           IsLeast(i) == i \in spaces /\ \A j \in spaces : i <= j
<1>1. PICK n \in Nat : n = Len(text) /\ c <= n + 1
  OBVIOUS
<1>2. CASE spaces = {}
  <2>1. stop = n + 1
    BY <1>1, <1>2 DEF Devices!NextSpace
  <2>2. ASSUME NEW i \in Nat, c <= i, i < n + 1 PROVE text[i] # Devices!Space
    <3>1. i \in c..Len(text)
      BY <1>1, <2>2
    <3> QED
      BY <1>2, <3>1
  <2> QED
    BY <1>1, <2>1, <2>2 DEF IsWord
<1>3. CASE spaces # {}
  <2>1. spaces \subseteq Nat
    OBVIOUS
  <2>2. \E i : IsLeast(i)
    <3> HIDE DEF spaces
    <3> QED
      BY <1>3, <2>1, LeastElement
  <2>3. stop = CHOOSE i \in spaces : \A j \in spaces : i <= j
    BY <1>3 DEF Devices!NextSpace
  <2>4. IsLeast(stop)
    <3> HIDE DEF spaces
    <3> QED
      BY <2>2, <2>3
  <2>5. stop \in c..n /\ text[stop] = Devices!Space
    BY <1>1, <2>4
  <2>6. ASSUME NEW i \in Nat, c <= i, i < stop, text[i] = Devices!Space PROVE FALSE
    <3>1. i \in c..n
      BY <1>1, <2>5, <2>6
    <3>2. i \in spaces
      BY <1>1, <2>6, <3>1
    <3> HIDE DEF spaces
    <3>3. stop <= i
      BY <2>4, <3>2
    <3> QED
      BY <2>5, <2>6, <3>3
  <2>7. \A i \in Nat : c <= i /\ i < stop => text[i] # Devices!Space
    BY <2>6, Zenon
  <2>8. stop \in Nat /\ c <= stop /\ stop <= n + 1 /\ stop <= n
    BY <1>1, <2>5
  <2> QED
    BY <1>1, <2>5, <2>7, <2>8 DEF IsWord
<1> QED
  BY <1>2, <1>3

\* The word from c on is that of the extension.
LEMMA WordOfExtension ==
    ASSUME NEW text \in Seq(Characters), NEW c \in Nat, NEW stop \in Nat,
           1 <= c, c <= stop, stop <= Len(text) + 1
    PROVE  Devices!Lower(SubSeq(text, c, stop - 1)) = <<"g">>
               <=> stop = c + 1 /\ text[c] \in {"g", "G"}
<1> DEFINE word == SubSeq(text, c, stop - 1)
           low == Devices!Lower(word)
<1>1. /\ Len(text) \in Nat /\ c \in Int /\ stop - 1 \in Int
      /\ stop - 1 <= Len(text)
  OBVIOUS
<1>2. \A i \in c..stop - 1 : text[i] \in Characters
  BY <1>1
<1>3. /\ Len(word) = IF c <= stop - 1 THEN (stop - 1) - c + 1 ELSE 0
      /\ \A i \in 1..(stop - 1) - c + 1 : word[i] = text[c + i - 1]
  BY <1>1, <1>2, SubSeqProperties
<1>4. PICK m \in Nat : m = stop - c /\ Len(word) = m
  BY <1>1, <1>3
<1>5. low = [i \in 1..m |-> IF word[i] = "G" THEN "g" ELSE word[i]]
  BY <1>4 DEF Devices!Lower
<1>6. m = 1 => word[1] = text[c]
  <2>1. m = 1 => 1 \in 1..(stop - 1) - c + 1 /\ c + 1 - 1 = c
    BY <1>4
  <2> QED
    BY <1>3, <2>1
<1> HIDE DEF word, low
<1>7. ASSUME low = <<"g">> PROVE m = 1 /\ text[c] \in {"g", "G"}
  <2>1. Len(low) = m /\ Len(<<"g">>) = 1
    BY <1>5
  <2>2. m = 1
    BY <1>7, <2>1
  <2>3. low[1] = "g" /\ low[1] = IF word[1] = "G" THEN "g" ELSE word[1]
    BY <1>5, <1>7, <2>2
  <2> QED
    BY <1>6, <2>2, <2>3
<1>8. ASSUME m = 1, text[c] \in {"g", "G"} PROVE low = <<"g">>
  <2>1. word[1] = text[c]
    BY <1>6, <1>8
  <2>2. low = [i \in 1..1 |-> "g"]
    BY <1>5, <1>8, <2>1
  <2> QED
    BY <2>2
<1>9. m = 1 <=> stop = c + 1
  BY <1>4
<1> QED
  BY <1>7, <1>8, <1>9 DEF word, low

\* Behind a space, the words that begin before the one after stop are those before
\* c and the one at c.
LEMMA WordsUpTo ==
    ASSUME NEW text, Len(text) \in Nat, NEW c, NEW stop, IsWord(text, c, stop)
    PROVE  \A i \in 1..Len(text) :
               c <= i /\ i <= stop => (WordAt(text, i) <=> /\ i = c /\ stop = c + 1
                                                           /\ text[c] \in {"g", "G"})
<1> TAKE i \in 1..Len(text)
<1> HAVE c <= i /\ i <= stop
<1>0. PICK n \in Nat : n = Len(text)
  OBVIOUS
<1>1. /\ i \in Nat /\ i <= n
      /\ c \in Nat /\ stop \in Nat /\ 1 <= c /\ c <= stop /\ stop <= n + 1
      /\ c = 1 \/ text[c - 1] = Devices!Space
      /\ stop <= n => text[stop] = Devices!Space
      /\ \A j \in Nat : c <= j /\ j < stop => text[j] # Devices!Space
  BY <1>0 DEF IsWord
<1>2. CASE i = stop
  <2>1. text[i] = Devices!Space
    BY <1>1, <1>2
  <2> QED
    BY <1>1, <1>2, <2>1, SpaceIsNoLetter DEF WordAt
<1>3. CASE i # stop /\ i # c
  <2>1. i - 1 \in Nat /\ c <= i - 1 /\ i - 1 < stop /\ i # 1
    BY <1>1, <1>3
  <2> QED
    BY <1>1, <1>3, <2>1 DEF WordAt
<1>4. CASE i # stop /\ i = c
  <2>1. i + 1 = stop => (i = n \/ text[i + 1] = Devices!Space)
    BY <1>1
  <2>2. i + 1 # stop => i + 1 \in Nat /\ c <= i + 1 /\ i + 1 < stop /\ i # n
    BY <1>1, <1>4
  <2>3. i = 1 \/ text[i - 1] = Devices!Space
    BY <1>1, <1>4
  <2>4. i + 1 # stop => text[i + 1] # Devices!Space
    BY <1>1, <2>2
  <2>5. WordAt(text, i) <=> text[i] \in {"g", "G"} /\ i + 1 = stop
    BY <1>0, <1>1, <1>4, <2>1, <2>2, <2>3, <2>4 DEF WordAt
  <2> QED
    BY <1>1, <1>4, <2>5
<1> QED
  BY <1>2, <1>3, <1>4

\* The extension is a word of the text before place c, and one that begins no later
\* than stop.
WordBefore(text, c) == \E i \in 1..c - 1 : WordAt(text, i)
WordUpTo(text, stop) == \E i \in 1..Len(text) : i <= stop /\ WordAt(text, i)

\* One turn of the loop: the words before stop, and the one that ends there.
LEMMA OneMoreWord ==
    ASSUME NEW text \in Seq(Characters), NEW c \in Nat, 1 <= c, c <= Len(text) + 1,
           NEW stop, stop = Devices!NextSpace(text, c),
           c = 1 \/ text[c - 1] = Devices!Space,
           NEW word, word = Devices!Lower(SubSeq(text, c, stop - 1))
    PROVE  /\ stop \in Nat /\ stop <= Len(text) + 1
           /\ stop <= Len(text) => text[stop] = Devices!Space
           /\ WordUpTo(text, stop) <=> WordBefore(text, c) \/ word = <<"g">>
<1>1. /\ stop \in Nat /\ c <= stop /\ stop <= Len(text) + 1
      /\ stop <= Len(text) => text[stop] = Devices!Space
      /\ \A i \in Nat : c <= i /\ i < stop => text[i] # Devices!Space
  BY NextWord DEF IsWord
<1> DEFINE found == stop = c + 1 /\ text[c] \in {"g", "G"}
<1>2. word = <<"g">> <=> found
  BY <1>1, WordOfExtension
<1>3. PICK n \in Nat : n = Len(text)
  OBVIOUS
<1>4. \A i \in 1..n : c <= i /\ i <= stop => (WordAt(text, i) <=> i = c /\ found)
  <2>1. IsWord(text, c, stop)
    BY NextWord
  <2>2. \A i \in 1..Len(text) :
            c <= i /\ i <= stop => (WordAt(text, i) <=> /\ i = c /\ stop = c + 1
                                                        /\ text[c] \in {"g", "G"})
    BY <1>3, <2>1, WordsUpTo
  <2> QED
    BY <1>3, <2>2
<1> HIDE DEF found
<1>5. WordBefore(text, c) \/ word = <<"g">> <=>
          (\E i \in 1..c - 1 : WordAt(text, i)) \/ found
  BY <1>2 DEF WordBefore
<1>6. ASSUME NEW i \in 1..c - 1, WordAt(text, i)
      PROVE  \E j \in 1..n : j <= stop /\ WordAt(text, j)
  <2>1. i \in 1..n /\ i <= stop
    BY <1>1, <1>3
  <2> QED
    BY <1>6, <2>1
<1>7. ASSUME found PROVE \E j \in 1..n : j <= stop /\ WordAt(text, j)
  <2>1. stop = c + 1
    BY <1>7 DEF found
  <2>2. c \in 1..n /\ c <= stop
    BY <1>1, <1>3, <2>1
  <2> QED
    BY <1>4, <1>7, <2>2
<1>8. ASSUME NEW i \in 1..n, i <= stop, WordAt(text, i)
      PROVE  (\E j \in 1..c - 1 : WordAt(text, j)) \/ found
  <2>1. CASE c <= i
    BY <1>4, <1>8, <2>1
  <2>2. CASE ~(c <= i)
    <3>1. i \in 1..c - 1
      BY <1>3, <2>2
    <3> QED
      BY <1>8, <3>1
  <2> QED
    BY <2>1, <2>2
<1>9. WordBefore(text, c) \/ word = <<"g">> <=> \E i \in 1..n : i <= stop /\ WordAt(text, i)
  BY <1>5, <1>6, <1>7, <1>8
<1> QED
  BY <1>1, <1>3, <1>9 DEF WordUpTo

\* All words of the text are those of what it reports.
LEMMA ReportsIs ==
    ASSUME NEW d
    PROVE  Devices!Reports(d) <=> \E i \in 1..Len(d.text) : WordAt(d.text, i)
BY DEF Devices!Reports, WordAt

-----------------------------------------------------------------------------
LEMMA SystemCounts ==
    ASSUME system \in Systems
    PROVE  /\ Len(system) \in Nat
           /\ \A p \in 1..Len(system) :
                  /\ Installed(p) \in Nat
                  /\ \A k \in 1..Installed(p) : Reported(system[p][k])
BY SystemsAssumption DEF Installed

LEMMA AsSequence ==
    ASSUME NEW S, NEW list \in Seq(S)
    PROVE  Len(list) \in Nat /\ list = [i \in 1..Len(list) |-> list[i]]
OBVIOUS

\* What a constructor has read before it looks at the extensions.
LEMMA NewDevice ==
    ASSUME NEW installed, Reported(installed), NEW d, d \in Devices!Queried(installed),
           platforms \in Nat \ {0}
    PROVE  /\ d.platform = platforms /\ d.index = deviceIndex /\ d.extensions = {}
           /\ Sane(d)
<1> DEFINE T(u) == Devices!NumberField("type", u, installed.type, Types)
           A(u) == Devices!NumberField("available", u, installed.available, BOOLEAN)
           N(u) == Devices!NumberField("size", u, installed.size, 0..MaxSize)
           name(u) == Devices!StringField("name", u, installed.name, Devices!Unnamed)
           text(u) == Devices!StringField("text", u, installed.text, <<>>)
           Of(u) == { [platform |-> platforms, index |-> deviceIndex, unread |-> u,
                       name |-> name(u), text |-> text(u), type |-> t, available |-> a,
                       size |-> n, extensions |-> {}] :
                          t \in T(u), a \in A(u), n \in N(u) }
<1>1. Devices!Queried(installed) = UNION { Of(u) : u \in SUBSET installed.unreadable }
  BY DEF Devices!Queried
<1>2. PICK u : d \in Of(u)
  <2> HIDE DEF Of
  <2> QED
    BY <1>1
<1>3. /\ \A x \in T(u) : x \in Types
      /\ \A x \in A(u) : x \in BOOLEAN
  BY DEF Reported, Devices!NumberField
<1>4. \A x \in N(u) : x \in 0..MaxSize /\ ("size" \notin u => x >= 1)
  <2>1. CASE "size" \in u
    BY <2>1 DEF Devices!NumberField
  <2>2. CASE "size" \notin u
    <3>1. N(u) = {installed.size}
      BY <2>2 DEF Devices!NumberField
    <3>2. installed.size \in 0..MaxSize /\ installed.size >= 1
      BY SystemsAssumption DEF Reported
    <3> QED
      BY <3>1, <3>2
  <2> QED
    BY <2>1, <2>2
<1>5. name(u) \notin {"any", "gpu", "cpu", "all"}
  BY Zenon DEF Reported, Devices!StringField, Devices!Unnamed
<1>6. text(u) \in Seq(Characters)
  <2>1. <<>> \in Seq(Characters) /\ installed.text \in Seq(Characters)
    BY DEF Reported
  <2> QED
    BY <2>1, Zenon DEF Devices!StringField
<1> HIDE DEF T, A, N, name, text
<1>7. PICK t \in T(u), a \in A(u), n \in N(u) : 
               d = [platform |-> platforms, index |-> deviceIndex, unread |-> u,
                    name |-> name(u), text |-> text(u), type |-> t, available |-> a,
                    size |-> n, extensions |-> {}]
  BY <1>2
<1>8. /\ d.platform = platforms /\ d.index = deviceIndex /\ d.extensions = {}
      /\ d.unread = u /\ d.name = name(u) /\ d.text = text(u)
      /\ d.type = t /\ d.available = a /\ d.size = n
  BY <1>7
<1>9. d = [platform |-> d.platform, index |-> d.index, unread |-> d.unread, name |-> d.name,
           text |-> d.text, type |-> d.type, available |-> d.available, size |-> d.size,
           extensions |-> d.extensions]
  BY <1>7, <1>8
<1> QED
  BY <1>3, <1>4, <1>5, <1>6, <1>8, <1>9 DEF Sane

\* One more device of the platform that is read.
LEMMA OneDevice ==
    ASSUME NEW n \in Nat, NEW k \in Nat, NEW d, d.platform = n + 1, d.index = k,
           Len(devices) \in Nat, devices = [i \in 1..Len(devices) |-> devices[i]],
           devices' = Append(devices, d), UNCHANGED system, Lists(n, k)
    PROVE  /\ Len(devices') \in Nat /\ devices' = [i \in 1..Len(devices') |-> devices'[i]]
           /\ Lists(n, k + 1)'
<1>1. PICK S : S = {devices[i] : i \in 1..Len(devices)} \cup {d}
  OBVIOUS
<1>2. d \in S /\ devices \in Seq(S)
  <2>1. \A i \in 1..Len(devices) : devices[i] \in S
    BY <1>1
  <2> QED
    BY <1>1, <2>1
<1>3. /\ devices' \in Seq(S) /\ Len(devices') = Len(devices) + 1
      /\ \A i \in 1..Len(devices) : devices'[i] = devices[i]
      /\ devices'[Len(devices) + 1] = d
  BY <1>2, AppendProperties
<1>4. PICK m \in Nat : m = Len(devices)
  OBVIOUS
<1>5. 1..m + 1 = 1..m \cup {m + 1} /\ m + 1 \notin 1..m
  BY <1>4
<1>6. \A p : Installed(p)' = Installed(p)
  BY DEF Installed
<1>7. ASSUME NEW i \in 1..m
      PROVE  /\ devices'[i] = devices[i]
             /\ devices[i].platform \in 1..n + 1
             /\ \/ devices[i].platform \in 1..n
                   /\ devices[i].index \in 0..Installed(devices[i].platform) - 1
                \/ devices[i].platform = n + 1 /\ devices[i].index \in 0..k - 1
  <2>1. /\ \/ devices[i].platform \in 1..n
              /\ devices[i].index \in 0..Installed(devices[i].platform) - 1
           \/ devices[i].platform = n + 1 /\ devices[i].index \in 0..k - 1
    BY <1>4 DEF Lists
  <2> QED
    BY <1>3, <1>4, <2>1
<1>8. ASSUME NEW i \in 1..m + 1
      PROVE  \/ devices'[i].platform \in 1..n
                /\ devices'[i].index \in 0..Installed(devices'[i].platform) - 1
             \/ devices'[i].platform = n + 1 /\ devices'[i].index \in 0..(k + 1) - 1
  <2>1. CASE i = m + 1
    BY <1>3, <1>4, <2>1
  <2>2. CASE i \in 1..m
    <3>1. 0..k - 1 \subseteq 0..(k + 1) - 1
      OBVIOUS
    <3> QED
      BY <1>7, <2>2, <3>1
  <2> QED
    BY <1>5, <2>1, <2>2
<1>9. \A p \in 1..n : \A j \in 0..Installed(p) - 1 :
          \E i \in 1..m + 1 : Devices!Where(devices'[i]) = <<p, j>>
  <2> TAKE p \in 1..n
  <2> TAKE j \in 0..Installed(p) - 1
  <2>1. PICK i \in 1..m : Devices!Where(devices[i]) = <<p, j>>
    BY <1>4 DEF Lists
  <2> QED
    BY <1>5, <1>7, <2>1
<1>10. ASSUME NEW j \in 0..(k + 1) - 1
       PROVE  \E i \in 1..m + 1 : Devices!Where(devices'[i]) = <<n + 1, j>>
  <2>1. CASE j = k
    <3>1. devices'[m + 1] = d /\ m + 1 \in 1..m + 1
      BY <1>3, <1>4
    <3> QED
      BY <2>1, <3>1 DEF Devices!Where
  <2>2. CASE j \in 0..k - 1
    <3>1. PICK i \in 1..m : Devices!Where(devices[i]) = <<n + 1, j>>
      BY <1>4, <2>2 DEF Lists
    <3> QED
      BY <1>5, <1>7, <3>1
  <2>3. j = k \/ j \in 0..k - 1
    OBVIOUS
  <2> QED
    BY <2>1, <2>2, <2>3, Zenon
<1>11. ASSUME NEW i \in 1..m + 1, NEW j \in 1..m + 1, i < j
       PROVE  Devices!Before(devices'[i], devices'[j])
  <2>1. i \in 1..m
    BY <1>11
  <2>2. CASE j \in 1..m
    <3>1. Devices!Before(devices[i], devices[j])
      BY <1>4, <1>11, <2>1, <2>2 DEF Lists
    <3> QED
      BY <1>7, <2>1, <2>2, <3>1
  <2>3. CASE j = m + 1
    <3>1. devices'[j] = d /\ devices'[i] = devices[i]
      BY <1>3, <1>4, <1>7, <2>1, <2>3
    <3>2. \/ devices[i].platform \in 1..n
          \/ devices[i].platform = n + 1 /\ devices[i].index \in 0..k - 1
      BY <1>7, <2>1
    <3> QED
      BY <3>1, <3>2 DEF Devices!Before
  <2> QED
    BY <1>5, <2>2, <2>3
<1>12. Lists(n, k + 1)'
  <2>1. Len(devices') = m + 1
    BY <1>3, <1>4
  <2> QED
    BY <1>6, <1>8, <1>9, <1>10, <1>11, <2>1 DEF Lists
<1>13. Len(devices') \in Nat /\ devices' = [i \in 1..Len(devices') |-> devices'[i]]
  BY <1>3, AsSequence, Zenon
<1> QED
  BY <1>12, <1>13

\* Nothing of the next platform.
LEMMA NothingOfNext ==
    ASSUME NEW n, Devices!ListsPlatforms(n)
    PROVE  Lists(n, 0)
<1>1. \A j \in 0..0 - 1 : FALSE
  OBVIOUS
<1>2. \A j \in 0..0 - 1 : \E i \in 1..Len(devices) : Devices!Where(devices[i]) = <<n + 1, j>>
  BY <1>1, Zenon
<1> QED
  BY <1>2 DEF Devices!ListsPlatforms, Lists, Installed

\* All of the next platform, once its last device has been read.
LEMMA AllOfNext ==
    ASSUME NEW n \in Nat, NEW p \in Nat, p = n + 1, Lists(n, Installed(p))'
    PROVE  Devices!ListsPlatforms(p)'
<1>1. 1..p = 1..n \cup {p}
  OBVIOUS
<1>2. ASSUME NEW i \in (1..Len(devices))'
      PROVE  /\ devices'[i].platform \in 1..p
             /\ devices'[i].index \in 0..Installed(devices[i].platform)' - 1
  BY <1>1 DEF Lists
<1>3. ASSUME NEW q \in 1..p, NEW j \in (0..Installed(q) - 1)'
      PROVE  (\E i \in 1..Len(devices) : Devices!Where(devices[i]) = <<q, j>>)'
  BY <1>1, <1>3 DEF Lists
<1>4. (\A i, j \in 1..Len(devices) : i < j => Devices!Before(devices[i], devices[j]))'
  BY DEF Lists
<1> QED
  BY <1>2, <1>3, <1>4 DEF Devices!ListsPlatforms, Installed

\* The places of devices do not change when their extensions are parsed.
LEMMA ListsKept ==
    ASSUME UNCHANGED system, Len(devices') = Len(devices), NEW n, NEW k, Lists(n, k),
           \A i \in 1..Len(devices) : /\ devices'[i].platform = devices[i].platform
                                      /\ devices'[i].index = devices[i].index
    PROVE  Lists(n, k)'
<1>1. \A p : Installed(p)' = Installed(p)
  BY DEF Installed
<1>2. \A i \in 1..Len(devices) : Devices!Where(devices'[i]) = Devices!Where(devices[i])
  BY DEF Devices!Where
<1>3. \A i, j \in 1..Len(devices) :
          Devices!Before(devices'[i], devices'[j]) <=> Devices!Before(devices[i], devices[j])
  BY DEF Devices!Before
<1>4. \A p \in 1..n : \A j \in 0..Installed(p) - 1 :
          \E i \in 1..Len(devices) : Devices!Where(devices'[i]) = <<p, j>>
  BY <1>2 DEF Lists
<1>5. \A j \in 0..k - 1 :
          \E i \in 1..Len(devices) : Devices!Where(devices'[i]) = <<n + 1, j>>
  BY <1>2 DEF Lists
<1>6. \A i \in 1..Len(devices) :
           \/ devices'[i].platform \in 1..n
              /\ devices'[i].index \in 0..Installed(devices'[i].platform) - 1
           \/ devices'[i].platform = n + 1 /\ devices'[i].index \in 0..k - 1
  <2> TAKE i \in 1..Len(devices)
  <2>1. \/ devices[i].platform \in 1..n
           /\ devices[i].index \in 0..Installed(devices[i].platform) - 1
        \/ devices[i].platform = n + 1 /\ devices[i].index \in 0..k - 1
    BY DEF Lists
  <2> QED
    BY <2>1
<1>7. \A i, j \in 1..Len(devices) : i < j => Devices!Before(devices'[i], devices'[j])
  BY <1>3 DEF Lists
<1> QED
  BY <1>1, <1>4, <1>5, <1>6, <1>7 DEF Lists

\* The steps of init in which no device is made.
LEMMA FieldsKept ==
    ASSUME FieldsInv, UNCHANGED devices, pc # "extensions", pc' # "extensions"
    PROVE  FieldsInv'
<1>1. \A d : (Parsed(d)' <=> Parsed(d)) /\ (Sane(d)' <=> Sane(d))
  BY DEF Parsed, Sane, Devices!Reports
<1> QED
  BY <1>1 DEF FieldsInv

LEMMA GetPlatformIDsStep ==
    ASSUME ReadInv, Devices!GetPlatformIDs
    PROVE  ReadInv'
<1>1. /\ pc = "start" /\ pc' \in {"platform", "ready"}
      /\ pc' = "platform" => arrays' = arrays + 1
      /\ pc' = "ready" => arrays' = arrays
      /\ UNCHANGED <<system, ok, platforms, deviceIndex, devices>>
  BY DEF Devices!GetPlatformIDs
<1>2. arrays = 0 /\ platforms = 0 /\ ok = FALSE /\ Devices!ListsPlatforms(0)
  BY <1>1 DEF ReadInv, ReadingInv, ListInv, Devices!Returned
<1>3. ReadingInv'
  BY <1>1, <1>2 DEF ReadInv, ReadingInv
<1>4. Devices!ListsPlatforms(0)'
  BY <1>1, <1>2 DEF Devices!ListsPlatforms
<1>5. ListInv'
  BY <1>1, <1>2, <1>4 DEF ListInv
<1>6. Devices!ArraysFreed'
  BY <1>1, <1>2 DEF Devices!ArraysFreed, Devices!Returned
<1>7. Devices!WholePlatforms'
  <2>1. Len(devices') = 0
    <3>1. ~(1 \in 1..Len(devices))
      BY <1>2 DEF Devices!ListsPlatforms
    <3>2. Len(devices) \in Nat
      BY DEF ReadInv, ReadingInv
    <3> QED
      BY <1>1, <3>1, <3>2
  <2>2. Devices!ListsPlatforms(0 - 1)'
    BY <2>1 DEF Devices!ListsPlatforms
  <2> QED
    BY <1>1, <1>2, <2>2 DEF Devices!WholePlatforms
<1>8. FieldsInv'
  BY <1>1, FieldsKept DEF ReadInv
<1> QED
  BY <1>3, <1>5, <1>6, <1>7, <1>8 DEF ReadInv

LEMMA ReadPlatformStep ==
    ASSUME ReadInv, Devices!ReadPlatform
    PROVE  ReadInv'
<1>1. /\ pc = "platform" /\ platforms < Len(system)
      /\ platforms' = platforms + 1 /\ deviceIndex' = 0
      /\ \/ Installed(platforms)' > 0 /\ pc' = "device" /\ arrays' = arrays + 1
         \/ pc' = "ready" /\ arrays' = arrays - 1
      /\ UNCHANGED <<system, ok, devices>>
  BY DEF Devices!ReadPlatform, Devices!GetDeviceIDs, Installed
<1>2. PICK n \in Nat : n = platforms /\ n + 1 \in 1..Len(system)
  <2>1. platforms \in 0..Len(system) /\ Len(system) \in Nat
    BY SystemCounts DEF ReadInv, ReadingInv
  <2> QED
    BY <1>1, <2>1
<1>3. Installed(n + 1) \in Nat /\ Len(system) \in Nat
  BY <1>2, SystemCounts DEF ReadInv, ReadingInv
<1>4. arrays = 1 /\ ok = FALSE /\ Devices!ListsPlatforms(n)
  BY <1>1, <1>2 DEF ReadInv, ReadingInv, ListInv, Devices!Returned
<1>5. Devices!ListsPlatforms(n)'
  BY <1>1, <1>4 DEF Devices!ListsPlatforms
<1>6. platforms' = n + 1 /\ platforms' - 1 = n
  BY <1>1, <1>2
<1>7. FieldsInv'
  BY <1>1, FieldsKept DEF ReadInv
<1>8. CASE pc' = "device" /\ Installed(platforms)' > 0 /\ arrays' = arrays + 1
  <2>1. Lists(n, 0)
    BY <1>4, NothingOfNext
  <2>2. Lists(n, 0)'
    BY <1>1, <2>1 DEF Lists, Installed
  <2>3. ListInv'
    BY <1>1, <1>6, <1>8, <2>2 DEF ListInv
  <2>4. Installed(n + 1)' = Installed(n + 1) /\ Installed(n + 1) # 0
    BY <1>1, <1>3, <1>6, <1>8 DEF Installed
  <2>5. ReadingInv'
    BY <1>1, <1>2, <1>3, <1>4, <1>6, <1>8, <2>4 DEF ReadInv, ReadingInv
  <2> QED
    BY <1>7, <1>8, <2>3, <2>5 DEF ReadInv, Devices!ArraysFreed, Devices!WholePlatforms,
       Devices!Returned
<1>9. CASE pc' = "ready" /\ arrays' = arrays - 1
  <2>1. ReadingInv'
    BY <1>1, <1>2, <1>4, <1>6, <1>9 DEF ReadInv, ReadingInv, Devices!Returned
  <2>2. ListInv'
    BY <1>9 DEF ListInv
  <2>3. Devices!ArraysFreed'
    BY <1>4, <1>9 DEF Devices!ArraysFreed
  <2>4. Devices!WholePlatforms'
    BY <1>1, <1>4, <1>5, <1>6 DEF Devices!WholePlatforms
  <2> QED
    BY <1>7, <2>1, <2>2, <2>3, <2>4 DEF ReadInv
<1> QED
  BY <1>1, <1>8, <1>9

LEMMA ReadDeviceStep ==
    ASSUME ReadInv, Devices!ReadDevice
    PROVE  ReadInv'
<1>1. /\ pc = "device" /\ pc' = "extensions" /\ at' = 1 /\ deviceIndex' = deviceIndex + 1
      /\ UNCHANGED <<system, ok, arrays, platforms>>
  BY DEF Devices!ReadDevice
<1>2. PICK d : /\ d \in Devices!Queried(system[platforms][deviceIndex + 1])
               /\ devices' = Append(devices, d)
  BY DEF Devices!ReadDevice
<1>3. /\ arrays = 2 /\ ok = FALSE /\ platforms \in Nat \ {0}
      /\ deviceIndex \in 0..Installed(platforms) - 1 /\ platforms \in 0..Len(system)
      /\ Lists(platforms - 1, deviceIndex)
      /\ Len(devices) \in Nat /\ devices = [i \in 1..Len(devices) |-> devices[i]]
      /\ system \in Systems
  BY <1>1 DEF ReadInv, ReadingInv, ListInv, Devices!Returned
<1>4. /\ Len(system) \in Nat /\ Installed(platforms) \in Nat
      /\ Reported(system[platforms][deviceIndex + 1])
  <2>1. Len(system) \in Nat
    BY <1>3, SystemCounts
  <2>2. platforms \in 1..Len(system)
    BY <1>3, <2>1
  <2>3. Installed(platforms) \in Nat
    BY <1>3, <2>2, SystemCounts
  <2>4. deviceIndex + 1 \in 1..Installed(platforms)
    BY <1>3, <2>3
  <2> QED
    BY <1>3, <2>1, <2>2, <2>3, <2>4, SystemCounts
<1>5. d.platform = platforms /\ d.index = deviceIndex /\ d.extensions = {} /\ Sane(d)
  BY <1>2, <1>3, <1>4, NewDevice
<1>6. PICK n \in Nat, k \in Nat, m \in Nat :
          n = platforms - 1 /\ k = deviceIndex /\ m = Installed(platforms)
  BY <1>3, <1>4
<1>7. platforms = n + 1 /\ platforms \in Nat /\ k \in 0..m - 1 /\ k + 1 \in 1..m
  BY <1>3, <1>6
<1>8. /\ Len(devices') \in Nat /\ devices' = [i \in 1..Len(devices') |-> devices'[i]]
      /\ Lists(n, k + 1)'
  <2>1. d.platform = n + 1 /\ d.index = k /\ Lists(n, k)
    BY <1>3, <1>5, <1>6, <1>7
  <2> QED
    BY <1>1, <1>2, <1>3, <2>1, OneDevice
<1>9. /\ platforms' = n + 1 /\ platforms' - 1 = n /\ deviceIndex' = k + 1
      /\ Installed(platforms)' = m
  BY <1>1, <1>6, <1>7 DEF Installed
<1>10. ReadingInv'
  BY <1>1, <1>3, <1>7, <1>8, <1>9 DEF ReadingInv
<1>11. ListInv'
  BY <1>1, <1>8, <1>9 DEF ListInv
<1>12. FieldsInv'
  <2>1. PICK last \in Nat : last = Len(devices) + 1
    BY <1>3
  <2>2. /\ Len(devices') = last /\ devices'[last] = d /\ last # 0
        /\ \A i \in 1..last : i # last => i \in 1..Len(devices) /\ devices'[i] = devices[i]
    BY <1>2, <1>3, <2>1
  <2>3. \A e : (Parsed(e)' <=> Parsed(e)) /\ (Sane(e)' <=> Sane(e))
    BY DEF Parsed, Sane, Devices!Reports
  <2>4. \A i \in 1..last : Sane(devices'[i]) /\ (i # last => Parsed(devices'[i]))
    BY <1>1, <1>5, <2>2 DEF ReadInv, FieldsInv
  <2>5. ParsedUpTo(d)'
    <3>1. d.text \in Seq(Characters)
      BY <1>5 DEF Sane
    <3>2. 1 \in 1..Len(d.text) + 1 /\ \A i \in 1..1 - 1 : FALSE
      BY <3>1
    <3>3. <<"g">> \notin d.extensions
      BY <1>5
    <3> QED
      BY <1>1, <3>2, <3>3 DEF ParsedUpTo
  <2> QED
    BY <1>1, <2>2, <2>3, <2>4, <2>5 DEF FieldsInv
<1> QED
  BY <1>1, <1>10, <1>11, <1>12 DEF ReadInv, Devices!ArraysFreed, Devices!WholePlatforms,
     Devices!Returned

\* The length of a sequence that is written as a function.
LEMMA LengthIs ==
    ASSUME NEW m \in Nat, NEW f, f = [i \in 1..m |-> f[i]]
    PROVE  Len(f) = m
<1>1. PICK S : S = {f[i] : i \in 1..m}
  OBVIOUS
<1>2. \A i \in 1..m : f[i] \in S
  BY <1>1
<1>3. [i \in 1..m |-> f[i]] \in [1..m -> S]
  BY <1>2, Zenon
<1>4. f \in [1..m -> S]
  BY <1>3, Zenon
<1>5. f \in Seq(S)
  BY <1>4, SeqDef, Zenon
<1>6. DOMAIN f = 1..m
  BY Zenon
<1>7. Len(f) \in Nat /\ DOMAIN f = 1..Len(f)
  BY <1>5
<1> QED
  BY <1>6, <1>7

\* A turn of the loop of parseExtensions changes a device and nothing of its place.
LEMMA OneExtension ==
    ASSUME NEW m \in Nat \ {0}, m = Len(devices), devices = [i \in 1..m |-> devices[i]],
           Sane(devices[m]), NEW e, devices' = [devices EXCEPT ![m].extensions = e]
    PROVE  /\ Len(devices') = m /\ devices' = [i \in 1..m |-> devices'[i]]
           /\ \A i \in 1..m : i # m => devices'[i] = devices[i]
           /\ devices'[m].extensions = e /\ devices'[m].text = devices[m].text
           /\ devices'[m].platform = devices[m].platform
           /\ devices'[m].index = devices[m].index
           /\ Sane(devices'[m])
<1> DEFINE d == devices[m]
           new == [d EXCEPT !.extensions = e]
<1>1. m \in 1..m
  OBVIOUS
<1>2. devices' = [i \in 1..m |-> IF i = m THEN new ELSE devices[i]]
  OBVIOUS
<1>3. d = [platform |-> d.platform, index |-> d.index, unread |-> d.unread, name |-> d.name,
           text |-> d.text, type |-> d.type, available |-> d.available, size |-> d.size,
           extensions |-> d.extensions]
  BY DEF Sane
<1>4. new = [platform |-> d.platform, index |-> d.index, unread |-> d.unread, name |-> d.name,
             text |-> d.text, type |-> d.type, available |-> d.available, size |-> d.size,
             extensions |-> e]
  <2> DEFINE p == d.platform
             x == d.index
             u == d.unread
             n == d.name
             t == d.text
             y == d.type
             a == d.available
             s == d.size
             f == d.extensions
  <2>1. d = [platform |-> p, index |-> x, unread |-> u, name |-> n, text |-> t, type |-> y,
             available |-> a, size |-> s, extensions |-> f]
    BY <1>3
  <2> HIDE DEF d, p, x, u, n, t, y, a, s, f
  <2>2. new = [platform |-> p, index |-> x, unread |-> u, name |-> n, text |-> t, type |-> y,
               available |-> a, size |-> s, extensions |-> e]
    BY <2>1
  <2> QED
    BY <2>2 DEF p, x, u, n, t, y, a, s
<1> HIDE DEF new
<1>5. Len(devices') = m /\ devices' = [i \in 1..m |-> devices'[i]]
  <2>1. devices' = [i \in 1..m |-> devices'[i]]
    BY <1>2
  <2>2. m \in Nat
    OBVIOUS
  <2> QED
    BY <2>1, <2>2, LengthIs, Zenon
<1>6. devices'[m] = new /\ \A i \in 1..m : i # m => devices'[i] = devices[i]
  BY <1>1, <1>2
<1> HIDE DEF d
<1>7. /\ new.extensions = e /\ new.platform = d.platform /\ new.index = d.index
      /\ new.unread = d.unread /\ new.name = d.name /\ new.text = d.text
      /\ new.type = d.type /\ new.available = d.available /\ new.size = d.size
  BY <1>4
<1>8. new = [platform |-> new.platform, index |-> new.index, unread |-> new.unread,
             name |-> new.name, text |-> new.text, type |-> new.type,
             available |-> new.available, size |-> new.size, extensions |-> new.extensions]
  BY <1>4, <1>7
<1>9. Sane(new)
  BY <1>7, <1>8 DEF Sane, d
<1> QED
  BY <1>5, <1>6, <1>7, <1>9 DEF d

LEMMA ParseExtensionStep ==
    ASSUME ReadInv, Devices!ParseExtension
    PROVE  ReadInv'
<1>1. /\ pc = "extensions"
      /\ UNCHANGED <<system, ok, platforms, deviceIndex>>
  BY DEF Devices!ParseExtension, Devices!NextDevice
<1>2. /\ arrays = 2 /\ ok = FALSE /\ platforms \in Nat \ {0}
      /\ deviceIndex \in 1..Installed(platforms) /\ platforms \in 0..Len(system)
      /\ Lists(platforms - 1, deviceIndex)
      /\ Len(devices) \in Nat /\ devices = [i \in 1..Len(devices) |-> devices[i]]
      /\ system \in Systems
      /\ \A i \in 1..Len(devices) : Sane(devices[i])
      /\ \A i \in 1..Len(devices) : i # Len(devices) => Parsed(devices[i])
      /\ Len(devices) # 0 /\ ParsedUpTo(devices[Len(devices)])
  BY <1>1 DEF ReadInv, ReadingInv, ListInv, FieldsInv, Devices!Returned
<1>3. PICK m \in Nat \ {0} : m = Len(devices) /\ m \in 1..m
  BY <1>2
<1>4. PICK d, stop, e :
          /\ d = devices[m] /\ stop = Devices!NextSpace(d.text, at)
          /\ e = d.extensions \cup {Devices!Lower(SubSeq(d.text, at, stop - 1))}
  OBVIOUS
<1>5. /\ devices' = [devices EXCEPT ![m].extensions = e]
      /\ \/ stop <= Len(d.text) /\ at' = stop + 1 /\ UNCHANGED <<pc, arrays>>
         \/ /\ ~(stop <= Len(d.text)) /\ at' = 0 /\ deviceIndex < Installed(platforms)
            /\ pc' = "device" /\ UNCHANGED arrays
         \/ /\ ~(stop <= Len(d.text)) /\ at' = 0 /\ deviceIndex = Installed(platforms)
            /\ pc' = "platform" /\ arrays' = arrays - 1
  BY <1>3, <1>4 DEF Devices!ParseExtension, Devices!NextDevice, Installed
<1>6. /\ Len(devices') = m /\ devices' = [i \in 1..m |-> devices'[i]]
      /\ \A i \in 1..m : i # m => devices'[i] = devices[i]
      /\ devices'[m].extensions = e /\ devices'[m].text = d.text
      /\ devices'[m].platform = devices[m].platform
      /\ devices'[m].index = devices[m].index
      /\ Sane(devices'[m])
  BY <1>2, <1>3, <1>4, <1>5, OneExtension
<1>7. Lists(platforms - 1, deviceIndex)'
  <2>1. PICK n, k : n = platforms - 1 /\ k = deviceIndex
    OBVIOUS
  <2>2. \A i \in 1..m : /\ devices'[i].platform = devices[i].platform
                        /\ devices'[i].index = devices[i].index
    BY <1>6
  <2>3. Lists(n, k)'
    BY <1>1, <1>2, <1>3, <1>6, <2>1, <2>2, ListsKept
  <2> QED
    BY <1>1, <2>1, <2>3
<1>8. PICK c \in Nat, len \in Nat : c = at /\ len = Len(d.text) /\ 1 <= c /\ c <= len + 1
  <2>1. Len(d.text) \in Nat
    BY <1>2, <1>3, <1>4 DEF Sane
  <2>2. at \in 1..Len(d.text) + 1
    BY <1>2, <1>3, <1>4 DEF ParsedUpTo
  <2> QED
    BY <2>1, <2>2
<1>9. /\ stop \in Nat /\ stop <= len + 1
      /\ stop <= len => d.text[stop] = Devices!Space
      /\ <<"g">> \in e <=> \E i \in 1..len : i <= stop /\ WordAt(d.text, i)
  <2>1. d.text \in Seq(Characters)
    BY <1>2, <1>3, <1>4 DEF Sane
  <2>2. /\ c = 1 \/ d.text[c - 1] = Devices!Space
        /\ <<"g">> \in d.extensions <=> WordBefore(d.text, c)
    BY <1>2, <1>3, <1>4, <1>8 DEF ParsedUpTo, WordBefore
  <2>3. PICK text, word : /\ text = d.text /\ stop = Devices!NextSpace(text, c)
                          /\ word = Devices!Lower(SubSeq(text, c, stop - 1))
    BY <1>4, <1>8
  <2>4. <<"g">> \in e <=> <<"g">> \in d.extensions \/ word = <<"g">>
    BY <1>4, <1>8, <2>3
  <2>5. text \in Seq(Characters) /\ 1 <= c /\ c <= Len(text) + 1
    BY <1>8, <2>1, <2>3
  <2>6. c = 1 \/ text[c - 1] = Devices!Space
    BY <2>2, <2>3
  <2>7. /\ stop \in Nat /\ stop <= Len(text) + 1
        /\ stop <= Len(text) => text[stop] = Devices!Space
        /\ WordUpTo(text, stop) <=> WordBefore(text, c) \/ word = <<"g">>
    BY <2>3, <2>5, <2>6, OneMoreWord
  <2> QED
    BY <1>8, <2>2, <2>3, <2>4, <2>7 DEF WordUpTo
<1>10. \A x : (Parsed(x)' <=> Parsed(x)) /\ (Sane(x)' <=> Sane(x))
  BY DEF Parsed, Sane, Devices!Reports
<1>11. \A i \in 1..m : Sane(devices'[i]) /\ (i # m => Parsed(devices'[i]))
  BY <1>2, <1>3, <1>6
<1>12. CASE stop <= len /\ at' = stop + 1 /\ UNCHANGED <<pc, arrays>>
  <2>1. PICK new : new = devices'[m]
    OBVIOUS
  <2>2. ParsedUpTo(new)'
    <3>1. at' \in 1..len + 1 /\ at' - 1 = stop
      BY <1>8, <1>9, <1>12
    <3>2. \A i : i \in 1..stop <=> i \in 1..len /\ i <= stop
      BY <1>8, <1>9, <1>12
    <3>3. <<"g">> \in e <=> \E i \in 1..at' - 1 : WordAt(d.text, i)
      BY <1>9, <3>1, <3>2
    <3> QED
      BY <1>6, <1>8, <1>9, <1>12, <2>1, <3>1, <3>3 DEF ParsedUpTo
  <2>3. FieldsInv'
    BY <1>1, <1>3, <1>6, <1>10, <1>11, <1>12, <2>1, <2>2 DEF FieldsInv
  <2>4. ReadingInv' /\ ListInv'
    BY <1>1, <1>2, <1>6, <1>7, <1>12 DEF ReadingInv, ListInv, Installed
  <2> QED
    BY <1>1, <1>12, <2>3, <2>4 DEF ReadInv, Devices!ArraysFreed, Devices!WholePlatforms,
       Devices!Returned
<1>13. CASE ~(stop <= len) /\ pc' \in {"device", "platform"}
  <2>1. Parsed(devices'[m])
    <3>1. \A i \in 1..len : i <= stop
      BY <1>8, <1>9, <1>13
    <3> QED
      BY <1>6, <1>8, <1>9, <3>1, ReportsIs DEF Parsed
  <2>2. FieldsInv'
    BY <1>6, <1>10, <1>11, <1>13, <2>1 DEF FieldsInv
  <2>3. CASE deviceIndex < Installed(platforms) /\ pc' = "device" /\ UNCHANGED arrays
    <3>1. Installed(platforms)' = Installed(platforms) /\ Installed(platforms) \in Nat
      <4>1. platforms \in 1..Len(system)
        BY <1>2, SystemCounts
      <4> QED
        BY <1>1, <1>2, <4>1, SystemCounts DEF Installed
    <3>2. ReadingInv'
      BY <1>1, <1>2, <1>6, <2>3, <3>1 DEF ReadingInv
    <3>3. ListInv'
      BY <1>7, <2>3 DEF ListInv
    <3> QED
      BY <2>2, <2>3, <3>2, <3>3 DEF ReadInv, Devices!ArraysFreed, Devices!WholePlatforms,
         Devices!Returned
  <2>4. CASE deviceIndex = Installed(platforms) /\ pc' = "platform" /\ arrays' = arrays - 1
    <3>1. PICK n \in Nat : n + 1 = platforms /\ n = platforms - 1
      BY <1>2
    <3>2. Lists(n, Installed(platforms))'
      BY <1>1, <1>7, <2>4, <3>1 DEF Installed
    <3>3. PICK p \in Nat : p = n + 1 /\ p = platforms
      BY <3>1
    <3>4. Devices!ListsPlatforms(p)'
      BY <1>1, <3>2, <3>3, AllOfNext
    <3>5. ReadingInv'
      BY <1>1, <1>2, <1>6, <2>4 DEF ReadingInv
    <3>6. ListInv'
      BY <1>1, <2>4, <3>3, <3>4 DEF ListInv
    <3> QED
      BY <2>2, <2>4, <3>5, <3>6 DEF ReadInv, Devices!ArraysFreed, Devices!WholePlatforms,
         Devices!Returned
  <2> QED
    BY <1>5, <1>13, <2>3, <2>4, <1>1
<1> QED
  BY <1>5, <1>8, <1>12, <1>13

\* The steps after init has read everything, or given up.
LEMMA LaterStep ==
    ASSUME ReadInv,
           pc \in {"platform", "ready", "select", "choose", "exit", "crashed", "running"},
           pc' \in {"ready", "select", "choose", "exit", "crashed", "running"},
           UNCHANGED <<system, platforms, devices>>,
           \/ pc = "platform" /\ platforms = Len(system) /\ ok' = TRUE /\ arrays' = arrays - 1
           \/ pc # "platform" /\ UNCHANGED <<ok, arrays>>
    PROVE  ReadInv'
<1>1. ReadingInv' /\ ListInv'
  BY DEF ReadInv, ReadingInv, ListInv, Devices!Returned
<1>2. Devices!ArraysFreed'
  BY DEF ReadInv, ReadingInv, Devices!ArraysFreed, Devices!Returned
<1>3. Devices!WholePlatforms'
  <2>1. ASSUME NEW n, Devices!ListsPlatforms(n) PROVE Devices!ListsPlatforms(n)'
    BY <2>1 DEF Devices!ListsPlatforms
  <2>2. CASE pc = "platform"
    <3>1. Devices!ListsPlatforms(platforms)
      BY <2>2 DEF ReadInv, ListInv
    <3> QED
      BY <2>2, <3>1 DEF Devices!WholePlatforms, Devices!ListsPlatforms
  <2>3. CASE pc # "platform"
    <3>1. Devices!ListsPlatforms(IF ok THEN Len(system) ELSE platforms - 1)
      BY <2>3 DEF ReadInv, Devices!WholePlatforms, Devices!Returned
    <3> QED
      BY <2>3, <3>1 DEF Devices!WholePlatforms, Devices!ListsPlatforms
  <2> QED
    BY <2>2, <2>3
<1>4. FieldsInv'
  BY FieldsKept DEF ReadInv
<1> QED
  BY <1>1, <1>2, <1>3, <1>4 DEF ReadInv

-----------------------------------------------------------------------------
\* What init has made is not written after it has returned.
LEMMA SharingKept ==
    ASSUME Devices!SharingAsReported, UNCHANGED <<contexts, devices>>
    PROVE  Devices!SharingAsReported'
<1>1. \A d : Devices!Reports(d)' <=> Devices!Reports(d)
  BY Zenon DEF Devices!Reports
<1> QED
  BY <1>1 DEF Devices!SharingAsReported

\* Nothing has been asked for while init reads.
LEMMA CallWhileReading ==
    ASSUME CallInv, ~Devices!Returned, UNCHANGED <<asked, listed, chosen, contexts>>,
           pc' \notin {"select", "choose", "crashed", "running"}, Len(devices') \in Nat
    PROVE  CallInv' /\ Devices!SharingAsReported'
<1>1. asked = "none" /\ listed = <<>> /\ chosen = 0 /\ contexts = <<>>
  BY DEF CallInv
<1>2. listed' \in Seq(1..Len(devices')) /\ chosen' \in 0..Len(devices')
  BY <1>1
<1>3. Devices!ListedAsAsked'
  BY <1>1 DEF Devices!ListedAsAsked
<1>4. CallInv'
  BY <1>1, <1>2, <1>3 DEF CallInv
<1>5. Devices!SharingAsReported'
  BY <1>1 DEF Devices!SharingAsReported
<1> QED
  BY <1>4, <1>5

LEMMA EmptyList == Devices!ListOf(<<>>, {})
BY DEF Devices!ListOf

\* A larger member at the end of a list.
LEMMA LongerList ==
    ASSUME NEW U, NEW list \in Seq(U), U \subseteq Nat, NEW set, Devices!ListOf(list, set),
           NEW a \in U, \A i \in set : i < a
    PROVE  Devices!ListOf(Append(list, a), set \cup {a})
<1>1. PICK n \in Nat : n = Len(list)
  OBVIOUS
<1>2. PICK more : more = Append(list, a)
  OBVIOUS
<1>3. /\ Len(more) = n + 1 /\ more[n + 1] = a
      /\ \A k \in 1..n : more[k] = list[k]
  BY <1>1, <1>2, AppendProperties
<1>4. 1..n + 1 = 1..n \cup {n + 1} /\ \A k \in 1..n : k < n + 1
  BY <1>1
<1>5. /\ {list[k] : k \in 1..n} = set
      /\ \A j, k \in 1..n : j < k => list[j] < list[k]
  BY <1>1 DEF Devices!ListOf
<1>6. {more[k] : k \in 1..n + 1} = set \cup {a}
  <2>1. ASSUME NEW k \in 1..n + 1 PROVE more[k] \in set \cup {a}
    <3>1. CASE k \in 1..n
      <4>1. list[k] \in set
        BY <1>5, <3>1
      <4> QED
        BY <1>3, <3>1, <4>1
    <3>2. CASE k = n + 1
      BY <1>3, <3>2
    <3> QED
      BY <1>4, <3>1, <3>2, Zenon
  <2>2. ASSUME NEW x \in set \cup {a} PROVE \E k \in 1..n + 1 : x = more[k]
    <3>1. CASE x \in set
      <4>1. PICK k \in 1..n : x = list[k]
        BY <1>5, <3>1
      <4> QED
        BY <1>3, <1>4, <4>1
    <3>2. CASE x = a
      <4>1. n + 1 \in 1..n + 1
        BY <1>1
      <4> QED
        BY <1>3, <3>2, <4>1
    <3> QED
      BY <3>1, <3>2
  <2> QED
    BY <2>1, <2>2
<1>7. ASSUME NEW j \in 1..n + 1, NEW k \in 1..n + 1, j < k PROVE more[j] < more[k]
  <2>1. j \in 1..n /\ (k \in 1..n \/ k = n + 1)
    BY <1>1, <1>7
  <2>2. list[j] \in set
    BY <1>5, <2>1
  <2>3. CASE k \in 1..n
    BY <1>3, <1>5, <1>7, <2>1, <2>3
  <2>4. CASE k = n + 1
    BY <1>3, <2>1, <2>2, <2>4
  <2> QED
    BY <2>1, <2>3, <2>4
<1> QED
  BY <1>2, <1>3, <1>6, <1>7 DEF Devices!ListOf

\* getDevices is called.
LEMMA AskStep ==
    ASSUME CallInv, Len(devices) \in Nat, NEW match, Devices!Ask(match)
    PROVE  CallInv'
<1>1. /\ pc = "ready" /\ pc' = "select" /\ at' = 1 /\ platform' = 0
      /\ asked' = match /\ listed' = <<>>
      /\ UNCHANGED <<devices, chosen, contexts>>
  BY DEF Devices!Ask, Devices!opencl
<1>2. chosen = 0
  BY <1>1 DEF CallInv
<1>3. Below(1)' = {}
  <2>1. ASSUME NEW i \in Devices!Among(asked)' PROVE ~(i < 1)
    BY <1>1 DEF Devices!Among
  <2> QED
    BY <2>1 DEF Below
<1>4. (at \in 1..Len(devices) + 1)'
  BY <1>1
<1>5. Below(at)' = {}
  BY <1>1, <1>3 DEF Below
<1>6. SelectInv'
  BY <1>1, <1>4, <1>5, EmptyList DEF SelectInv
<1>7. listed' \in Seq(1..Len(devices'))
  BY <1>1
<1> QED
  BY <1>1, <1>2, <1>6, <1>7 DEF CallInv, Devices!Returned, Devices!ListedAsAsked

\* A turn of the loop of getDevices.
LEMMA TurnStep ==
    ASSUME ReadInv, CallInv, Devices!Turn
    PROVE  CallInv'
<1>1. /\ pc = "select" /\ pc' = "select" /\ at <= Len(devices)
      /\ UNCHANGED <<devices, asked, chosen, contexts>>
  BY DEF Devices!Turn, Devices!opencl
<1>2. /\ SelectInv /\ listed \in Seq(1..Len(devices)) /\ chosen = 0
      /\ at \in 1..Len(devices) + 1
  BY <1>1 DEF CallInv, SelectInv
<1>3. PICK len \in Nat, a \in Nat, d \in {devices[at]} :
          /\ len = Len(devices) /\ a = at /\ a \in 1..len /\ a + 1 \in 1..len + 1
          /\ d = devices[a]
  BY SMTT(30), <1>1, <1>2 DEF ReadInv, ReadingInv
<1>4. /\ d.available \in BOOLEAN /\ d.platform \in Nat \ {0}
      /\ d.name \notin {"any", "gpu", "cpu", "all"}
  BY <1>3 DEF ReadInv, FieldsInv, Sane
<1>5. PICK A : A = Devices!Among(asked)
  OBVIOUS
<1>6. /\ A \subseteq 1..len
      /\ a \in A <=> d.available /\ Devices!Matches(asked, d)
      /\ Devices!Among(asked)' = A
  BY <1>1, <1>3, <1>5 DEF Devices!Among
<1>7. \/ Devices!Skipped(d) /\ at' = a + 1 /\ UNCHANGED <<listed, platform>>
      \/ ~Devices!Matches(asked, d) /\ at' = a + 1 /\ UNCHANGED <<listed, platform>>
      \/ /\ ~Devices!Skipped(d) /\ Devices!Matches(asked, d)
         /\ listed' = Append(listed, a)
         /\ platform' = IF Devices!SetsPlatform(asked, d) THEN d.platform ELSE platform
         /\ at' = IF asked = "any" THEN len + 1 ELSE a + 1
  BY <1>3 DEF Devices!Turn
<1>8. \A n : Below(n)' = {i \in A : i < n} /\ Below(n) = {i \in A : i < n}
  BY <1>5, <1>6 DEF Below
<1>9. /\ a \notin A => {i \in A : i < a + 1} = {i \in A : i < a}
      /\ a \in A => {i \in A : i < a + 1} = {i \in A : i < a} \cup {a}
  <2>1. \A i \in A : i < a + 1 <=> i < a \/ i = a
    BY <1>3, <1>6
  <2>2. ~(a < a)
    BY <1>3
  <2> QED
    BY <2>1, <2>2
<1>10. (at \in 1..Len(devices) + 1)'
  BY <1>1, <1>3, <1>7
<1>11. listed' \in Seq(1..Len(devices'))
  BY <1>1, <1>2, <1>3, <1>7
<1>12. (asked = "any" =>
            /\ platform = 0
            /\ \/ listed = <<>> /\ Below(at) = {}
               \/ /\ at = Len(devices) + 1
                  /\ \E f \in 1..Len(devices) : FirstAmong(f) /\ listed = <<f>>)'
  <2> SUFFICES ASSUME asked = "any"
               PROVE  /\ platform' = 0
                      /\ \/ listed' = <<>> /\ {i \in A : i < at'} = {}
                         \/ /\ at' = len + 1
                            /\ \E f \in 1..len : FirstAmong(f)' /\ listed' = <<f>>
    BY <1>1, <1>3, <1>8
  <2>1. platform = 0 /\ listed = <<>> /\ {i \in A : i < a} = {}
    BY <1>2, <1>3, <1>8 DEF SelectInv
  <2>2. Devices!Skipped(d) <=> ~d.available
    BY <2>1 DEF Devices!Skipped
  <2>3. ~Devices!SetsPlatform(asked, d)
    BY <1>4 DEF Devices!SetsPlatform
  <2>4. CASE at' = a + 1 /\ UNCHANGED <<listed, platform>> /\ a \notin A
    BY <1>9, <2>1, <2>4
  <2>5. CASE /\ a \in A /\ listed' = Append(listed, a) /\ platform' = platform
             /\ at' = len + 1
    <3>1. FirstAmong(a)'
      <4>1. \A i \in A : a <= i
        BY <1>6, <2>1
      <4> QED
        BY <1>6, <2>5, <4>1 DEF FirstAmong, Devices!IsFirst
    <3>2. listed' = <<a>>
      BY <2>1, <2>5
    <3>3. \E f \in 1..len : FirstAmong(f)' /\ listed' = <<f>>
      BY <1>3, <3>1, <3>2, Zenon
    <3> QED
      BY <2>1, <2>5, <3>3
  <2> QED
    BY <1>6, <1>7, <2>2, <2>3, <2>4, <2>5
<1>13. (asked \in {"gpu", "cpu"} => platform = 0 /\ Devices!ListOf(listed, Below(at)))'
  <2> SUFFICES ASSUME asked \in {"gpu", "cpu"}
               PROVE  platform' = 0 /\ Devices!ListOf(listed', {i \in A : i < at'})
    BY <1>1, <1>8
  <2>1. platform = 0 /\ Devices!ListOf(listed, {i \in A : i < a})
    BY <1>2, <1>3, <1>8 DEF SelectInv
  <2>2. Devices!Skipped(d) <=> ~d.available
    BY <2>1 DEF Devices!Skipped
  <2>3. ~Devices!SetsPlatform(asked, d)
    BY <1>4 DEF Devices!SetsPlatform
  <2>4. CASE at' = a + 1 /\ UNCHANGED <<listed, platform>> /\ a \notin A
    BY <1>9, <2>1, <2>4
  <2>5. CASE /\ a \in A /\ listed' = Append(listed, a) /\ platform' = platform
             /\ at' = a + 1
    <3>1. \A i \in {i \in A : i < a} : i < a
      OBVIOUS
    <3>2. Devices!ListOf(Append(listed, a), {i \in A : i < a} \cup {a})
      BY <1>2, <1>3, <2>1, <3>1, LongerList
    <3> QED
      BY <1>9, <2>1, <2>5, <3>2
  <2> QED
    BY <1>6, <1>7, <2>2, <2>3, <2>4, <2>5
<1>14. (asked \notin {"any", "gpu", "cpu"} =>
            \/ platform = 0 /\ listed = <<>> /\ Below(at) = {}
            \/ \E f \in 1..at - 1 :
                   /\ FirstAmong(f) /\ platform = devices[f].platform
                   /\ Devices!ListOf(listed, {i \in Below(at) : devices[i].platform = platform}))'
  <2> DEFINE Of(n, p) == {i \in A : i < n /\ devices[i].platform = p}
  <2> SUFFICES ASSUME asked \notin {"any", "gpu", "cpu"}
               PROVE  \/ platform' = 0 /\ listed' = <<>> /\ {i \in A : i < at'} = {}
                      \/ \E f \in 1..at' - 1 :
                             /\ FirstAmong(f)' /\ platform' = devices[f].platform
                             /\ Devices!ListOf(listed', Of(at', platform'))
    <3>1. {i \in Below(at) : devices[i].platform = platform}' = Of(at', platform')
      BY <1>1, <1>8
    <3> QED
      BY <1>1, <1>8, <3>1
  <2>1. \/ platform = 0 /\ listed = <<>> /\ {i \in A : i < a} = {}
        \/ \E f \in 1..a - 1 : /\ FirstAmong(f) /\ platform = devices[f].platform
                               /\ Devices!ListOf(listed, Of(a, platform))
    <3>1. {i \in Below(at) : devices[i].platform = platform} = Of(a, platform)
      BY <1>3, <1>8
    <3> QED
      BY <1>2, <1>3, <1>8, <3>1 DEF SelectInv
  <2>2. Devices!Matches(asked, d) <=> Devices!SetsPlatform(asked, d)
    BY DEF Devices!Matches, Devices!SetsPlatform
  <2>3. \A f : FirstAmong(f)' <=> f \in A /\ \A j \in A : f <= j
    BY <1>6 DEF FirstAmong, Devices!IsFirst
  <2>4. \A f : FirstAmong(f) <=> f \in A /\ \A j \in A : f <= j
    BY <1>5 DEF FirstAmong, Devices!IsFirst
  <2>5. CASE platform = 0 /\ listed = <<>> /\ {i \in A : i < a} = {}
    <3>1. Devices!Skipped(d) <=> ~d.available
      BY <2>5 DEF Devices!Skipped
    <3>2. CASE at' = a + 1 /\ UNCHANGED <<listed, platform>> /\ a \notin A
      BY <1>9, <2>5, <3>2
    <3>3. CASE /\ a \in A /\ listed' = Append(listed, a) /\ platform' = d.platform
               /\ at' = a + 1
      <4>1. \A i \in A : a <= i
        BY <1>6, <2>5
      <4>2. Of(at', platform') = {} \cup {a}
        <5>1. a < a + 1 /\ \A i \in A : i < a + 1 => i = a
          BY <1>3, <1>6, <4>1
        <5> QED
          BY <1>3, <3>3, <5>1
      <4>3. Devices!ListOf(listed', {} \cup {a})
        <5>1. \A i \in {} : i < a
          OBVIOUS
        <5>2. 1..len \subseteq Nat /\ <<>> \in Seq(1..len)
          OBVIOUS
        <5>3. Devices!ListOf(Append(<<>>, a), {} \cup {a})
          BY <1>3, <5>1, <5>2, EmptyList, LongerList
        <5> QED
          BY <2>5, <3>3, <5>3
      <4> HIDE DEF Of
      <4>4. a \in 1..at' - 1 /\ FirstAmong(a)' /\ platform' = devices[a].platform
        BY <1>3, <2>3, <3>3, <4>1
      <4> QED
        BY <4>2, <4>3, <4>4
    <3> QED
      BY <1>6, <1>7, <2>2, <3>1, <3>2, <3>3
  <2>6. CASE \E f \in 1..a - 1 : /\ FirstAmong(f) /\ platform = devices[f].platform
                                 /\ Devices!ListOf(listed, Of(a, platform))
    <3>1. PICK f \in 1..a - 1 : /\ FirstAmong(f) /\ platform = devices[f].platform
                                /\ Devices!ListOf(listed, Of(a, platform))
      BY <2>6
    <3>2. platform # 0
      <4>1. f \in 1..len
        BY <1>3
      <4> QED
        BY <1>3, <3>1, <4>1 DEF ReadInv, FieldsInv, Sane
    <3>3. a \in A /\ d.platform = platform <=> ~Devices!Skipped(d) /\ Devices!Matches(asked, d)
      BY <1>4, <1>6, <3>2 DEF Devices!Skipped
    <3>4. f \in 1..a + 1 - 1 /\ FirstAmong(f)'
      BY <1>3, <2>3, <2>4, <3>1
    <3>5. CASE /\ at' = a + 1 /\ UNCHANGED <<listed, platform>>
               /\ ~(a \in A /\ d.platform = platform)
      <4>1. Of(a + 1, platform) = Of(a, platform)
        <5>1. \A i \in A : i < a + 1 <=> i < a \/ i = a
          BY <1>3, <1>6
        <5> QED
          BY <1>3, <3>5, <5>1
      <4> HIDE DEF Of
      <4> QED
        BY <3>1, <3>4, <3>5, <4>1
    <3>6. CASE /\ at' = a + 1 /\ listed' = Append(listed, a) /\ platform' = platform
               /\ a \in A /\ d.platform = platform
      <4>1. Of(a + 1, platform) = Of(a, platform) \cup {a}
        <5>1. a < a + 1 /\ \A i \in A : i < a + 1 <=> i < a \/ i = a
          BY <1>3, <1>6
        <5> QED
          BY <1>3, <3>6, <5>1
      <4>2. \A i \in Of(a, platform) : i < a
        OBVIOUS
      <4> HIDE DEF Of
      <4>3. Devices!ListOf(Append(listed, a), Of(a, platform) \cup {a})
        BY <1>2, <1>3, <3>1, <4>2, LongerList
      <4>4. Devices!ListOf(listed', Of(at', platform'))
        BY <3>6, <4>1, <4>3
      <4> QED
        BY <3>1, <3>4, <3>6, <4>4
    <3> HIDE DEF Of
    <3> QED
      BY <1>7, <2>2, <3>3, <3>5, <3>6
  <2> QED
    BY <2>1, <2>5, <2>6
<1>15. SelectInv'
  BY <1>10, <1>12, <1>13, <1>14 DEF SelectInv
<1> QED
  BY <1>1, <1>2, <1>11, <1>15 DEF CallInv, Devices!Returned, Devices!ListedAsAsked

\* When the loop is over, it has listed what is asked for.
LEMMA WhenReturned ==
    ASSUME ReadInv, CallInv, pc = "select", at > Len(devices)
    PROVE  Devices!ListIsRight
<1>1. SelectInv /\ at \in 1..Len(devices) + 1
  BY DEF CallInv, SelectInv
<1>2. PICK len \in Nat : len = Len(devices) /\ at = len + 1
  BY <1>1 DEF ReadInv, ReadingInv
<1>3. PICK A : A = Devices!Among(asked)
  OBVIOUS
<1>4. A \subseteq 1..len /\ Below(at) = A
  <2>1. A \subseteq 1..len
    BY <1>2, <1>3 DEF Devices!Among
  <2>2. \A i \in A : i < at
    BY <1>2, <2>1
  <2> QED
    BY <1>3, <2>1, <2>2 DEF Below
<1>5. \A f : FirstAmong(f) <=> f \in A /\ \A j \in A : f <= j
  BY <1>3 DEF FirstAmong, Devices!IsFirst
<1>6. ASSUME NEW f, NEW g, FirstAmong(f), FirstAmong(g) PROVE f = g
  <2>1. f \in A /\ g \in A /\ f <= g /\ g <= f
    BY <1>5, <1>6, Zenon
  <2>2. f \in Nat /\ g \in Nat
    BY <1>4, <2>1
  <2> QED
    BY <2>1, <2>2
<1>7. ASSUME asked = "any" PROVE Devices!ListOf(listed, Devices!Wanted(asked))
  <2>1. Devices!Wanted(asked) = {i \in A : FirstAmong(i)}
    BY <1>3, <1>5, <1>7 DEF Devices!Wanted, FirstAmong
  <2>2. CASE listed = <<>> /\ A = {}
    BY <2>1, <2>2, EmptyList
  <2>3. ASSUME NEW f \in 1..len, FirstAmong(f), listed = <<f>>
        PROVE  Devices!ListOf(listed, Devices!Wanted(asked))
    <3>1. Devices!Wanted(asked) = {f}
      BY <1>5, <1>6, <2>1, <2>3
    <3>2. Devices!ListOf(<<f>>, {f})
      BY DEF Devices!ListOf
    <3> QED
      BY <2>3, <3>1, <3>2
  <2> QED
    BY <1>1, <1>2, <1>4, <1>7, <2>2, <2>3 DEF SelectInv
<1>8. CASE asked \in {"gpu", "cpu"}
  <2>1. Devices!Wanted(asked) \subseteq A /\ A \in SUBSET Devices!Among(asked)
    BY <1>3 DEF Devices!Wanted
  <2>2. Devices!ListOf(listed, A)
    BY <1>1, <1>4, <1>8 DEF SelectInv
  <2> QED
    BY <1>8, <2>1, <2>2 DEF Devices!ListIsRight
<1>9. ASSUME asked \notin {"any", "gpu", "cpu"}
      PROVE  Devices!ListOf(listed, Devices!Wanted(asked))
  <2>1. Devices!Wanted(asked) =
            {i \in A : \E f \in A : FirstAmong(f) /\ devices[i].platform = devices[f].platform}
    BY <1>3, <1>9 DEF Devices!Wanted, FirstAmong
  <2>2. CASE listed = <<>> /\ A = {}
    <3>1. Devices!Wanted(asked) = {}
      BY <2>1, <2>2
    <3> QED
      BY <2>2, <3>1, EmptyList
  <2>3. ASSUME NEW f \in 1..at - 1, FirstAmong(f), platform = devices[f].platform,
               Devices!ListOf(listed, {i \in A : devices[i].platform = platform})
        PROVE  Devices!ListOf(listed, Devices!Wanted(asked))
    <3>1. Devices!Wanted(asked) = {i \in A : devices[i].platform = platform}
      BY <1>5, <1>6, <2>1, <2>3
    <3> QED
      BY <2>3, <3>1
  <2> QED
    BY <1>1, <1>4, <1>9, <2>2, <2>3 DEF SelectInv
<1> QED
  BY <1>7, <1>8, <1>9 DEF Devices!ListIsRight

\* The list and what it is of do not change.
LEMMA WantedKept ==
    ASSUME Devices!ListIsRight, UNCHANGED <<devices, listed, asked>>
    PROVE  Devices!ListIsRight'
<1>1. Devices!Among(asked)' = Devices!Among(asked)
  BY DEF Devices!Among
<1>2. Devices!Wanted(asked)' = Devices!Wanted(asked)
  BY <1>1 DEF Devices!Wanted
<1>3. \A set : Devices!ListOf(listed, set)' <=> Devices!ListOf(listed, set)
  BY DEF Devices!ListOf
<1> QED
  BY <1>1, <1>2, <1>3 DEF Devices!ListIsRight

\* A sequence, and one with a member more.
IsList(list) == Len(list) \in Nat /\ list = [i \in 1..Len(list) |-> list[i]]
Extends(more, list, e) ==
    /\ IsList(more) /\ Len(more) = Len(list) + 1
    /\ more[Len(list) + 1] = e
    /\ \A i \in 1..Len(list) : more[i] = list[i]

LEMMA Appended ==
    ASSUME NEW list, IsList(list), NEW e
    PROVE  Extends(Append(list, e), list, e)
<1> DEFINE more == Append(list, e)
<1>1. PICK S : S = {list[i] : i \in 1..Len(list)} \cup {e}
  OBVIOUS
<1>2. e \in S /\ list \in Seq(S)
  <2>1. \A i \in 1..Len(list) : list[i] \in S
    BY <1>1
  <2> QED
    BY <1>1, <2>1 DEF IsList
<1>3. /\ more \in Seq(S) /\ Len(more) = Len(list) + 1
      /\ \A i \in 1..Len(list) : more[i] = list[i]
      /\ more[Len(list) + 1] = e
  BY <1>2, AppendProperties
<1> HIDE DEF more
<1>4. IsList(more)
  BY <1>3, AsSequence, Zenon DEF IsList
<1> QED
  BY <1>3, <1>4 DEF Extends, more

\* What hasExtension answers is what the text of the device has.
LEMMA ContextReports ==
    ASSUME ReadInv, pc # "extensions",
           NEW list, \A k \in 1..Len(list) : list[k] \in 1..Len(devices),
           NEW gl, NEW c \in Devices!NewContext(list, gl)
    PROVE  c.glSharing <=> /\ c.request
                           /\ \E k \in 1..Len(c.devices) : Devices!Reports(devices[c.devices[k]])
<1>1. Devices!Lower(<<"g">>) = <<"g">>
  BY DEF Devices!Lower
<1>2. \A k \in 1..Len(list) :
          Devices!HasExtension(devices[list[k]], <<"g">>) <=> Devices!Reports(devices[list[k]])
  BY <1>1 DEF ReadInv, FieldsInv, Parsed, Devices!HasExtension
<1>3. PICK shares : shares <=> gl /\ \E k \in 1..Len(list) :
                                         Devices!HasExtension(devices[list[k]], <<"g">>)
  OBVIOUS
<1>4. /\ c.devices = list /\ c.request = gl
      /\ c.glSharing = (gl /\ \E k \in 1..Len(list) :
                                  Devices!HasExtension(devices[list[k]], <<"g">>))
  BY DEF Devices!NewContext
<1> QED
  BY <1>2, <1>4

\* One more context, or none.
LEMMA ContextAdded ==
    ASSUME ReadInv, Len(contexts) \in Nat, contexts = [j \in 1..Len(contexts) |-> contexts[j]],
           Devices!SharingAsReported, UNCHANGED devices, pc # "extensions",
           NEW list, \A k \in 1..Len(list) : list[k] \in 1..Len(devices),
           NEW gl, NEW c \in Devices!NewContext(list, gl), contexts' = Append(contexts, c)
    PROVE  /\ Len(contexts') \in Nat /\ contexts' = [j \in 1..Len(contexts') |-> contexts'[j]]
           /\ Devices!SharingAsReported'
<1>1. PICK n \in Nat : n = Len(contexts)
  OBVIOUS
<1>2. /\ Len(contexts') = n + 1 /\ contexts' = [j \in 1..Len(contexts') |-> contexts'[j]]
      /\ contexts'[n + 1] = c
      /\ \A j \in 1..n : contexts'[j] = contexts[j]
  <2>1. PICK old, more : old = contexts /\ more = contexts'
    OBVIOUS
  <2>2. /\ Len(more) = n + 1 /\ more = [j \in 1..Len(more) |-> more[j]]
        /\ more[n + 1] = c
        /\ \A j \in 1..n : more[j] = old[j]
    <3>1. IsList(old) /\ more = Append(old, c) /\ n = Len(old)
      BY <1>1, <2>1 DEF IsList
    <3>2. Extends(more, old, c)
      BY <3>1, Appended
    <3> QED
      BY <3>1, <3>2 DEF IsList, Extends
  <2> QED
    BY <2>1, <2>2
<1>3. \A d : Devices!Reports(d)' <=> Devices!Reports(d)
  BY Zenon DEF Devices!Reports
<1>4. 1..n + 1 = 1..n \cup {n + 1}
  BY <1>1
<1>5. c.glSharing <=> /\ c.request
                      /\ \E k \in 1..Len(c.devices) : Devices!Reports(devices[c.devices[k]])
  BY ContextReports
<1>6. ASSUME NEW j \in 1..n + 1
      PROVE  contexts'[j].glSharing <=>
                 /\ contexts'[j].request
                 /\ \E k \in 1..Len(contexts'[j].devices) :
                        Devices!Reports(devices[contexts'[j].devices[k]])
  <2>1. CASE j \in 1..n
    BY <1>1, <1>2, <2>1 DEF Devices!SharingAsReported
  <2>2. CASE j = n + 1
    BY <1>2, <1>5, <2>2
  <2> QED
    BY <1>4, <2>1, <2>2
<1>7. Devices!SharingAsReported'
  BY <1>2, <1>3, <1>6 DEF Devices!SharingAsReported
<1> QED
  BY <1>2, <1>7

\* getDevices returns, and its caller does nothing more with the list.
LEMMA ReturnsStep ==
    ASSUME ReadInv, CallInv, NEW next \in {"ready", "exit"}, Devices!Returns(next),
           UNCHANGED chosen,
           Len(contexts') \in Nat, contexts' = [j \in 1..Len(contexts') |-> contexts'[j]]
    PROVE  CallInv'
<1>1. /\ pc = "select" /\ at > Len(devices) /\ pc' = next
      /\ UNCHANGED <<devices, asked, listed>>
  BY DEF Devices!Returns, Devices!opencl
<1>2. Devices!ListIsRight'
  BY <1>1, WhenReturned, WantedKept
<1>3. chosen = 0 /\ listed \in Seq(1..Len(devices))
  BY <1>1 DEF CallInv
<1>4. listed' \in Seq(1..Len(devices')) /\ chosen' \in 0..Len(devices')
  BY <1>1, <1>3 DEF ReadInv, ReadingInv
<1> QED
  BY <1>1, <1>2, <1>3, <1>4 DEF CallInv, Devices!Returned, Devices!ListedAsAsked

\* createContext.
LEMMA CreateContextStep ==
    ASSUME ReadInv, CallInv, Devices!SharingAsReported,
           NEW gl, Devices!CreateContext(gl)
    PROVE  CallInv' /\ Devices!SharingAsReported'
<1>1. /\ Devices!Returns("ready") /\ UNCHANGED <<chosen, devices, listed>>
      /\ \/ UNCHANGED contexts
         \/ \E c \in Devices!NewContext(listed, gl) : contexts' = Append(contexts, c)
      /\ pc = "select"
  BY DEF Devices!CreateContext, Devices!Returns, Devices!opencl
<1>2. /\ Len(contexts) \in Nat /\ contexts = [j \in 1..Len(contexts) |-> contexts[j]]
      /\ listed \in Seq(1..Len(devices))
  BY DEF CallInv
<1>3. CASE UNCHANGED contexts
  BY SMTT(30), <1>1, <1>2, <1>3, ReturnsStep, SharingKept
<1>4. ASSUME NEW c \in Devices!NewContext(listed, gl), contexts' = Append(contexts, c)
      PROVE  CallInv' /\ Devices!SharingAsReported'
  <2>1. \A k \in 1..Len(listed) : listed[k] \in 1..Len(devices)
    BY SMTT(30), <1>2
  <2>2. /\ Len(contexts') \in Nat /\ contexts' = [j \in 1..Len(contexts') |-> contexts'[j]]
        /\ Devices!SharingAsReported'
    BY <1>1, <1>2, <1>4, <2>1, ContextAdded
  <2> QED
    BY <1>1, <2>2, ReturnsStep
<1> QED
  BY <1>1, <1>3, <1>4

\* initCL has its list.
LEMMA InitCLStep ==
    ASSUME ReadInv, CallInv, Devices!InitCL
    PROVE  CallInv'
<1>1. /\ UNCHANGED <<chosen, contexts, devices, asked, listed>>
      /\ pc = "select" /\ at > Len(devices)
      /\ \/ Devices!Returns("exit")
         \/ pc' = "choose" /\ at' = 1
  BY DEF Devices!InitCL, Devices!Returns, Devices!opencl
<1>2. /\ Len(contexts) \in Nat /\ contexts = [j \in 1..Len(contexts) |-> contexts[j]]
      /\ listed \in Seq(1..Len(devices)) /\ chosen = 0
  BY <1>1 DEF CallInv
<1>3. CASE Devices!Returns("exit")
  BY <1>1, <1>2, <1>3, ReturnsStep
<1>4. CASE pc' = "choose" /\ at' = 1
  <2>1. Devices!ListIsRight'
    BY <1>1, WhenReturned, WantedKept
  <2>2. BestOf(1)'
    BY <1>1, <1>2 DEF BestOf
  <2>3. at' \in 1..Len(listed') + 1 /\ BestOf(at)'
    <3>1. Len(listed') \in Nat
      BY <1>1, <1>2
    <3> QED
      BY <1>4, <2>2, <3>1 DEF BestOf
  <2>4. listed' \in Seq(1..Len(devices')) /\ chosen' \in 0..Len(devices')
    BY <1>1, <1>2 DEF ReadInv, ReadingInv
  <2> QED
    BY <1>1, <1>2, <1>4, <2>1, <2>3, <2>4 DEF CallInv, Devices!Returned, Devices!ListedAsAsked
<1> QED
  BY <1>1, <1>3, <1>4

\* A turn of the loop of initCL.
LEMMA ChooseStep ==
    ASSUME ReadInv, CallInv, Devices!Choose
    PROVE  CallInv'
<1>1. /\ pc = "choose" /\ pc' = "choose" /\ at <= Len(listed) /\ at' = at + 1
      /\ chosen' = IF Devices!Better(listed[at]) THEN listed[at] ELSE chosen
      /\ UNCHANGED <<devices, asked, listed, contexts>>
  BY DEF Devices!Choose, Devices!opencl
<1>2. /\ listed \in Seq(1..Len(devices)) /\ chosen \in 0..Len(devices)
      /\ at \in 1..Len(listed) + 1 /\ BestOf(at)
  BY <1>1 DEF CallInv
<1>3. PICK n \in Nat : n = at /\ n >= 1 /\ n \in 1..Len(listed) /\ at' \in 1..Len(listed) + 1
  BY <1>1, <1>2
<1>4. \A k \in 1..n : k \in 1..Len(listed)
  BY <1>2, <1>3
<1>5. Len(devices) \in Nat /\ \A i \in 1..Len(devices) : devices[i].size \in Nat
  BY SystemsAssumption DEF ReadInv, ReadingInv, FieldsInv, Sane
<1>6. \A k \in 1..n : listed[k] \in 1..Len(devices) /\ listed[k] # 0
  BY <1>2, <1>4
<1>7. PICK c, d, i : c = chosen /\ d = chosen' /\ i = listed[n]
  OBVIOUS
<1> DEFINE v(k) == devices[listed[k]].size
           Best(m, ch) == \/ ch = 0 /\ \A k \in 1..m : v(k) = 0
                          \/ /\ ch # 0
                             /\ \E j \in 1..m : /\ listed[j] = ch
                                                /\ \A k \in 1..m : v(k) <= devices[ch].size
                                                /\ \A k \in 1..j - 1 : v(k) < devices[ch].size
<1>8. \A k \in 1..n : v(k) \in Nat
  BY <1>5, <1>6
<1>9. Best(n - 1, c)
  BY <1>2, <1>3, <1>7 DEF BestOf
<1>10. d = IF v(n) > (IF c = 0 THEN 0 ELSE devices[c].size) THEN i ELSE c
  BY <1>1, <1>3, <1>7 DEF Devices!Better
<1>11. /\ v(n) = devices[i].size /\ i # 0 /\ i \in 1..Len(devices) /\ n \in 1..n
       /\ v(n) \in Nat
  BY <1>3, <1>6, <1>7, <1>8
<1>12. \A k : k \in 1..n <=> k \in 1..n - 1 \/ k = n
  BY <1>3
<1>13. \A j \in 1..n : \A k \in 1..j - 1 : k \in 1..n - 1
  BY <1>3
<1>14. c # 0 => devices[c].size \in Nat
  BY <1>2, <1>5, <1>7
<1> HIDE DEF v
<1>15. Best(n, d)
  <2>1. CASE c = 0 /\ \A k \in 1..n - 1 : v(k) = 0
    <3>1. CASE v(n) > 0
      <4>1. d = i
        BY <1>10, <2>1, <3>1
      <4>2. \A k \in 1..n : v(k) <= v(n)
        BY <1>11, <1>12, <2>1
      <4>3. \A k \in 1..n - 1 : v(k) < v(n)
        BY <2>1, <3>1
      <4> QED
        BY <1>7, <1>11, <4>1, <4>2, <4>3
    <3>2. CASE ~(v(n) > 0)
      BY <1>10, <1>11, <1>12, <2>1, <3>2
    <3> QED
      BY <3>1, <3>2
  <2>2. ASSUME c # 0, NEW j \in 1..n - 1, listed[j] = c,
               \A k \in 1..n - 1 : v(k) <= devices[c].size,
               \A k \in 1..j - 1 : v(k) < devices[c].size
        PROVE  Best(n, d)
    <3>1. j \in 1..n
      BY <1>12
    <3>2. CASE v(n) > devices[c].size
      <4>1. d = i
        BY <1>10, <2>2, <3>2
      <4>2. \A k \in 1..n - 1 : v(k) < v(n)
        BY <1>8, <1>11, <1>12, <1>14, <2>2, <3>2
      <4>3. \A k \in 1..n : v(k) <= v(n)
        BY <1>8, <1>11, <1>12, <4>2
      <4> QED
        BY <1>7, <1>11, <4>1, <4>2, <4>3
    <3>3. CASE ~(v(n) > devices[c].size)
      <4>1. d = c
        BY <1>10, <2>2, <3>3
      <4>2. \A k \in 1..n : v(k) <= devices[c].size
        BY <1>11, <1>12, <1>14, <2>2, <3>3
      <4> QED
        BY <2>2, <3>1, <4>1, <4>2
    <3> QED
      BY <3>2, <3>3
  <2> QED
    BY <1>9, <2>1, <2>2
<1>16. BestOf(at)'
  <2>1. at' - 1 = n
    BY <1>1, <1>3
  <2>2. \A k : devices'[listed'[k]].size = v(k)
    BY <1>1 DEF v
  <2> QED
    BY <1>1, <1>7, <1>15, <2>1, <2>2 DEF BestOf
<1>17. chosen' \in 0..Len(devices')
  BY <1>1, <1>2, <1>5, <1>7, <1>10, <1>11
<1>18. listed' \in Seq(1..Len(devices')) /\ at' \in 1..Len(listed') + 1
  BY <1>1, <1>2, <1>3
<1>19. /\ Len(contexts') \in Nat /\ contexts' = [j \in 1..Len(contexts') |-> contexts'[j]]
  BY <1>1 DEF CallInv
<1>20. Devices!ListedAsAsked'
  <2>1. Devices!ListedAsAsked
    BY DEF CallInv
  <2> QED
    BY <1>1, <2>1, WantedKept DEF Devices!ListedAsAsked
<1> QED
  BY <1>1, <1>16, <1>17, <1>18, <1>19, <1>20 DEF CallInv, Devices!Returned

\* initCL uses what it has chosen.
LEMMA UseChosenStep ==
    ASSUME ReadInv, CallInv, Devices!SharingAsReported, Devices!UseChosen
    PROVE  CallInv' /\ Devices!SharingAsReported'
<1>1. /\ pc = "choose" /\ at > Len(listed)
      /\ UNCHANGED <<devices, asked, listed, chosen>>
      /\ \/ chosen = 0 /\ pc' = "crashed" /\ UNCHANGED contexts
         \/ /\ chosen # 0 /\ pc' = "running"
            /\ \E c \in Devices!NewContext(<<chosen>>, FALSE) : contexts' = Append(contexts, c)
  BY DEF Devices!UseChosen, Devices!opencl
<1>2. /\ listed \in Seq(1..Len(devices)) /\ chosen \in 0..Len(devices)
      /\ at \in 1..Len(listed) + 1 /\ BestOf(at)
      /\ Len(contexts) \in Nat /\ contexts = [j \in 1..Len(contexts) |-> contexts[j]]
      /\ Devices!ListedAsAsked
  BY <1>1 DEF CallInv
<1>3. BestOf(Len(listed) + 1)'
  <2>1. at = Len(listed) + 1
    BY <1>1, <1>2
  <2>2. BestOf(Len(listed) + 1)
    BY <1>2, <2>1
  <2> QED
    BY <1>1, <2>2 DEF BestOf
<1>4. Devices!ListedAsAsked'
  BY <1>1, <1>2, WantedKept DEF Devices!ListedAsAsked
<1>5. /\ Len(contexts') \in Nat /\ contexts' = [j \in 1..Len(contexts') |-> contexts'[j]]
      /\ Devices!SharingAsReported'
  <2>1. CASE UNCHANGED contexts
    BY <1>1, <1>2, <2>1, SharingKept
  <2>2. ASSUME chosen # 0, NEW c \in Devices!NewContext(<<chosen>>, FALSE),
               contexts' = Append(contexts, c)
        PROVE  /\ Len(contexts') \in Nat
               /\ contexts' = [j \in 1..Len(contexts') |-> contexts'[j]]
               /\ Devices!SharingAsReported'
    <3>1. \A k \in 1..Len(<<chosen>>) : <<chosen>>[k] \in 1..Len(devices)
      BY SMTT(30), <1>2, <2>2 DEF ReadInv, ReadingInv
    <3> QED
      BY <1>1, <1>2, <2>2, <3>1, ContextAdded
  <2> QED
    BY <1>1, <2>1, <2>2
<1>6. CallInv'
  BY <1>1, <1>2, <1>3, <1>4, <1>5 DEF CallInv, Devices!Returned
<1> QED
  BY <1>5, <1>6

LEMMA DevicesInit ==
    ASSUME Devices!Init
    PROVE  DevicesInv
<1>1. /\ system \in Systems /\ pc = "start" /\ ok = FALSE /\ arrays = 0 /\ platforms = 0
      /\ devices = <<>> /\ asked = "none" /\ listed = <<>> /\ chosen = 0 /\ contexts = <<>>
  BY DEF Devices!Init
<1>2. /\ Len(devices) = 0 /\ Len(contexts) = 0 /\ platforms \in 0..Len(system)
      /\ devices = [i \in 1..Len(devices) |-> devices[i]]
      /\ contexts = [i \in 1..Len(contexts) |-> contexts[i]]
  BY <1>1, SystemCounts
<1>3. ReadingInv
  BY <1>1, <1>2 DEF ReadingInv, Devices!Returned
<1>4. ListInv
  BY <1>1, <1>2 DEF ListInv, Devices!ListsPlatforms
<1>5. FieldsInv
  BY <1>1, <1>2 DEF FieldsInv
<1>6. Devices!ArraysFreed /\ Devices!WholePlatforms
  BY <1>1 DEF Devices!ArraysFreed, Devices!WholePlatforms, Devices!Returned
<1>7. listed \in Seq(1..Len(devices)) /\ chosen \in 0..Len(devices)
  BY <1>1, <1>2
<1>8. CallInv
  BY <1>1, <1>2, <1>7 DEF CallInv, Devices!Returned, Devices!ListedAsAsked
<1>9. Devices!SharingAsReported
  BY <1>2 DEF Devices!SharingAsReported
<1> QED
  BY <1>3, <1>4, <1>5, <1>6, <1>8, <1>9 DEF DevicesInv, ReadInv

LEMMA DevicesStep ==
    ASSUME DevicesInv, Devices!Next
    PROVE  DevicesInv'
<1> USE DEF DevicesInv
<1>1. CASE Devices!GetPlatformIDs
  <2>1. ReadInv' /\ Len(devices') \in Nat
    BY <1>1, GetPlatformIDsStep DEF ReadInv, ReadingInv
  <2>2. /\ ~Devices!Returned /\ UNCHANGED <<asked, listed, chosen, contexts>>
        /\ pc' \notin {"select", "choose", "crashed", "running"}
    BY <1>1 DEF Devices!GetPlatformIDs, Devices!Returned
  <2> QED
    BY <2>1, <2>2, CallWhileReading
<1>2. CASE Devices!ReadPlatform
  <2>1. ReadInv' /\ Len(devices') \in Nat
    BY <1>2, ReadPlatformStep DEF ReadInv, ReadingInv
  <2>2. /\ ~Devices!Returned /\ UNCHANGED <<asked, listed, chosen, contexts>>
        /\ pc' \notin {"select", "choose", "crashed", "running"}
    BY <1>2 DEF Devices!ReadPlatform, Devices!GetDeviceIDs, Devices!Returned
  <2> QED
    BY <2>1, <2>2, CallWhileReading
<1>3. CASE Devices!ReadDevice
  <2>1. ReadInv' /\ Len(devices') \in Nat
    BY <1>3, ReadDeviceStep DEF ReadInv, ReadingInv
  <2>2. /\ ~Devices!Returned /\ UNCHANGED <<asked, listed, chosen, contexts>>
        /\ pc' \notin {"select", "choose", "crashed", "running"}
    BY <1>3 DEF Devices!ReadDevice, Devices!Returned
  <2> QED
    BY <2>1, <2>2, CallWhileReading
<1>4. CASE Devices!ParseExtension
  <2>1. ReadInv' /\ Len(devices') \in Nat
    BY <1>4, ParseExtensionStep DEF ReadInv, ReadingInv
  <2>2. /\ pc = "extensions" /\ UNCHANGED <<asked, listed, chosen, contexts>>
        /\ pc' = pc \/ pc' \in {"device", "platform"}
    BY <1>4 DEF Devices!ParseExtension, Devices!NextDevice
  <2>3. ~Devices!Returned /\ pc' \notin {"select", "choose", "crashed", "running"}
    BY <2>2 DEF Devices!Returned
  <2> QED
    BY <2>1, <2>2, <2>3, CallWhileReading
<1>5. CASE Devices!ReadAll
  <2>1. /\ pc = "platform" /\ platforms = Len(system) /\ pc' = "ready"
        /\ ok' = TRUE /\ arrays' = arrays - 1
        /\ UNCHANGED <<system, platforms, devices, asked, listed, chosen, contexts>>
    BY <1>5 DEF Devices!ReadAll
  <2>2. ReadInv' /\ Len(devices') \in Nat
    BY <2>1, LaterStep DEF ReadInv, ReadingInv
  <2>3. ~Devices!Returned /\ pc' \notin {"select", "choose", "crashed", "running"}
    BY <2>1 DEF Devices!Returned
  <2> QED
    BY <2>1, <2>2, <2>3, CallWhileReading
<1>6. ASSUME NEW match, Devices!Ask(match) PROVE DevicesInv'
  <2>1. /\ pc = "ready" /\ pc' = "select"
        /\ UNCHANGED <<system, platforms, devices, ok, arrays, contexts>>
    BY <1>6 DEF Devices!Ask, Devices!opencl
  <2>2. ReadInv'
    BY <2>1, LaterStep
  <2>3. CallInv'
    BY <1>6, AskStep DEF ReadInv, ReadingInv
  <2> QED
    BY <2>1, <2>2, <2>3, SharingKept
<1>7. CASE Devices!Turn
  <2>1. /\ pc = "select" /\ pc' = "select"
        /\ UNCHANGED <<system, platforms, devices, ok, arrays, contexts>>
    BY <1>7 DEF Devices!Turn, Devices!opencl
  <2>2. ReadInv'
    BY <2>1, LaterStep
  <2> QED
    BY <1>7, <2>1, <2>2, TurnStep, SharingKept
<1>8. CASE Devices!GetDevices
  <2>1. /\ pc = "select" /\ pc' = "ready" /\ Devices!Returns("ready")
        /\ UNCHANGED <<system, platforms, devices, ok, arrays, contexts, chosen>>
    BY <1>8 DEF Devices!GetDevices, Devices!Returns, Devices!opencl
  <2>2. ReadInv'
    BY <2>1, LaterStep
  <2>3. Len(contexts') \in Nat /\ contexts' = [j \in 1..Len(contexts') |-> contexts'[j]]
    BY <2>1 DEF CallInv
  <2> QED
    BY <2>1, <2>2, <2>3, ReturnsStep, SharingKept
<1>9. ASSUME NEW gl, Devices!CreateContext(gl) PROVE DevicesInv'
  <2>1. /\ pc = "select" /\ pc' = "ready"
        /\ UNCHANGED <<system, platforms, devices, ok, arrays>>
    BY <1>9 DEF Devices!CreateContext, Devices!Returns, Devices!opencl
  <2>2. ReadInv'
    BY <2>1, LaterStep
  <2> QED
    BY <1>9, <2>2, CreateContextStep
<1>10. CASE Devices!InitCL
  <2>1. /\ pc = "select" /\ pc' \in {"exit", "choose"}
        /\ UNCHANGED <<system, platforms, devices, ok, arrays, contexts>>
    BY <1>10 DEF Devices!InitCL, Devices!Returns, Devices!opencl
  <2>2. ReadInv'
    BY <2>1, LaterStep
  <2> QED
    BY <1>10, <2>1, <2>2, InitCLStep, SharingKept
<1>11. CASE Devices!Choose
  <2>1. /\ pc = "choose" /\ pc' = "choose"
        /\ UNCHANGED <<system, platforms, devices, ok, arrays, contexts>>
    BY <1>11 DEF Devices!Choose, Devices!opencl
  <2>2. ReadInv'
    BY <2>1, LaterStep
  <2> QED
    BY <1>11, <2>1, <2>2, ChooseStep, SharingKept
<1>12. CASE Devices!UseChosen
  <2>1. /\ pc = "choose" /\ pc' \in {"crashed", "running"}
        /\ UNCHANGED <<system, platforms, devices, ok, arrays>>
    BY <1>12 DEF Devices!UseChosen, Devices!opencl
  <2>2. ReadInv'
    BY <2>1, LaterStep
  <2> QED
    BY <1>12, <2>2, UseChosenStep
<1> QED
  BY <1>1, <1>2, <1>3, <1>4, <1>5, <1>6, <1>7, <1>8, <1>9, <1>10, <1>11, <1>12
     DEF Devices!Next

\* Nobody else writes what devices have.
LEMMA DevicesStutter ==
    ASSUME DevicesInv, UNCHANGED devicesVars, UNCHANGED <<arrays, pc, asked>>
    PROVE  DevicesInv'
<1>1. UNCHANGED <<system, ok, platforms, deviceIndex, devices, at, platform, listed, chosen,
                  contexts, arrays, pc, asked>>
  BY DEF devicesVars
<1>2. ReadingInv'
  BY <1>1 DEF DevicesInv, ReadInv, ReadingInv, Installed, Devices!Returned
<1>3. /\ \A n : Devices!ListsPlatforms(n)' <=> Devices!ListsPlatforms(n)
      /\ \A n, k : Lists(n, k)' <=> Lists(n, k)
  BY <1>1 DEF Devices!ListsPlatforms, Lists, Installed
<1>4. ListInv'
  BY <1>1, <1>3 DEF DevicesInv, ReadInv, ListInv
<1>5. FieldsInv'
  <2>1. \A d : (Parsed(d)' <=> Parsed(d)) /\ (Sane(d)' <=> Sane(d))
    BY DEF Parsed, Sane, Devices!Reports
  <2>2. \A d : ParsedUpTo(d)' <=> ParsedUpTo(d)
    BY <1>1 DEF ParsedUpTo
  <2> QED
    BY <1>1, <2>1, <2>2 DEF DevicesInv, ReadInv, FieldsInv
<1>6. Devices!ArraysFreed' /\ Devices!WholePlatforms'
  BY <1>1, <1>3 DEF DevicesInv, ReadInv, Devices!ArraysFreed, Devices!WholePlatforms,
     Devices!Returned
<1>7. CallInv'
  <2>1. SelectInv' <=> SelectInv
    <3>1. Devices!Among(asked)' = Devices!Among(asked)
      BY <1>1 DEF Devices!Among
    <3>2. /\ \A n : Below(n)' = Below(n)
          /\ \A f : FirstAmong(f)' <=> FirstAmong(f)
      BY <3>1 DEF Below, FirstAmong, Devices!IsFirst
    <3> QED
      BY <1>1, <3>2 DEF SelectInv, Devices!ListOf
  <2>2. \A n : BestOf(n)' <=> BestOf(n)
    BY <1>1 DEF BestOf
  <2>3. Devices!ListedAsAsked'
    BY <1>1, WantedKept DEF DevicesInv, CallInv, Devices!ListedAsAsked
  <2> QED
    BY <1>1, <2>1, <2>2, <2>3 DEF DevicesInv, CallInv, Devices!Returned
<1> QED
  BY <1>1, <1>2, <1>4, <1>5, <1>6, <1>7, SharingKept DEF DevicesInv, ReadInv

\* What the loops of getDevices and initCL end with.
LEMMA DevicesSelected ==
    ASSUME DevicesInv
    PROVE  Devices!ListedAsAsked /\ Devices!ChosenIsLargest /\ Devices!ChosenIfRead
<1>1. /\ Devices!ListedAsAsked
      /\ listed \in Seq(1..Len(devices)) /\ chosen \in 0..Len(devices)
      /\ pc = "running" => chosen # 0
      /\ pc = "running" => BestOf(Len(listed) + 1)
  BY DEF DevicesInv, CallInv
<1>2. \A i \in 1..Len(devices) :
          devices[i].size \in Nat /\ ("size" \notin devices[i].unread => devices[i].size >= 1)
  <2> TAKE i \in 1..Len(devices)
  <2>1. Sane(devices[i])
    BY DEF DevicesInv, ReadInv, FieldsInv
  <2>2. MaxSize \in Nat
    BY SystemsAssumption
  <2> QED
    BY <2>1, <2>2 DEF Sane
<1>3. PICK n \in Nat : n = Len(listed) /\ \A k \in 1..n : listed[k] \in 1..Len(devices)
  BY <1>1
<1>4. 1..Len(listed) + 1 - 1 = 1..n
  BY <1>3
<1>5. ASSUME pc = "running", NEW k \in 1..n
      PROVE  \/ devices[listed[k]].size < devices[chosen].size
             \/ /\ devices[listed[k]].size = devices[chosen].size
                /\ \E j \in 1..k : listed[j] = chosen
  <2>1. PICK j \in 1..n : /\ listed[j] = chosen
                          /\ \A i \in 1..n : devices[listed[i]].size <= devices[chosen].size
                          /\ \A i \in 1..j - 1 :
                                 devices[listed[i]].size < devices[chosen].size
    <3>1. BestOf(Len(listed) + 1) /\ chosen # 0
      BY <1>1, <1>5
    <3> QED
      BY <1>4, <3>1 DEF BestOf
  <2>2. devices[listed[k]].size \in Nat /\ devices[chosen].size \in Nat
    BY <1>2, <1>3, <2>1
  <2>3. j \in 1..k \/ k \in 1..j - 1
    OBVIOUS
  <2> QED
    BY <2>1, <2>2, <2>3
<1>6. Devices!ChosenIsLargest
  BY <1>3, <1>5 DEF Devices!ChosenIsLargest
<1>7. ASSUME pc = "choose", at > Len(listed), chosen = 0, NEW k \in 1..n
      PROVE  "size" \in devices[listed[k]].unread
  <2>1. at = n + 1 /\ BestOf(at)
    BY <1>3, <1>7 DEF DevicesInv, CallInv
  <2>2. devices[listed[k]].size = 0
    BY <1>7, <2>1 DEF BestOf
  <2> QED
    BY <1>2, <1>3, <2>2
<1>8. Devices!ChosenIfRead
  BY <1>3, <1>7 DEF Devices!ChosenIfRead
<1> QED
  BY <1>1, <1>6, <1>8

LEMMA DevicesTyped ==
    ASSUME DevicesInv
    PROVE  Devices!TypeOK
<1>1. arrays \in 0..2
  BY DEF DevicesInv, ReadInv, ReadingInv, Devices!ArraysFreed, Devices!Returned
<1>2. \A i \in 1..Len(devices) : devices[i].type \in Types /\ devices[i].size \in 0..MaxSize
  BY DEF DevicesInv, ReadInv, FieldsInv, Sane
<1>3. \A k \in 1..Len(listed) : listed[k] \in 1..Len(devices)
  BY DEF DevicesInv, CallInv
<1> QED
  BY <1>1, <1>2, <1>3 DEF DevicesInv, ReadInv, ReadingInv, CallInv, Devices!TypeOK

-----------------------------------------------------------------------------
\* Whichever part of the wrapper a behaviour is about.
PartInv ==
    /\ part = "queue" => Inv
    /\ part = "program" => ProgramInv
    /\ part = "devices" => DevicesInv

LEMMA PartInvHolds == AnySpec => []PartInv
<1>1. AnyInit => PartInv
  BY InitInv, InitProgram, DevicesInit DEF AnyInit, PartInv
<1>2. PartInv /\ [AnyNext]_allVars => PartInv'
  <2> SUFFICES ASSUME PartInv, [AnyNext]_allVars PROVE PartInv'
    OBVIOUS
  <2>1. ASSUME part = "program", part' = "program" PROVE ProgramInv'
    <3>1. CASE Program!Next
      BY <2>1, <3>1, NextProgram DEF PartInv
    <3>2. CASE UNCHANGED <<held, pc, asked, programVars>>
      BY <2>1, <3>2 DEF PartInv, programVars, ProgramInv, ProgramsInv, MakingInv, Constructing,
         CacheInv, AnswerInv, FilesInv, HandlesOfProgram, ReleasedInv, Made, KeyOf,
         Program!ReachableIsUsable, Program!Alive, Program!InCache
    <3> QED
      BY <2>1, <3>1, <3>2 DEF AnyNext, allVars, vars
  <2>2. ASSUME part = "devices", part' = "devices" PROVE DevicesInv'
    <3>1. CASE Devices!Next
      BY <2>2, <3>1, DevicesStep DEF PartInv
    <3>2. CASE UNCHANGED <<arrays, pc, asked, devicesVars>>
      <4>1. UNCHANGED devicesVars /\ UNCHANGED <<arrays, pc, asked>>
        BY <3>2
      <4> QED
        BY <2>2, <4>1, DevicesStutter DEF PartInv
    <3> QED
      BY <2>2, <3>1, <3>2 DEF AnyNext, allVars, vars
  <2>3. ASSUME part = "queue", part' = "queue" PROVE Inv'
    <3>1. [Next]_vars
      BY <2>3 DEF AnyNext, allVars
    <3> QED
      BY <2>3, <3>1, NextInv DEF PartInv
  <2>4. part' = part
    BY DEF AnyNext, allVars
  <2> QED
    BY <2>1, <2>2, <2>3, <2>4 DEF PartInv
<1> QED
  BY <1>1, <1>2, PTL DEF AnySpec

\* On whichever path init returns, it has deleted its identifier arrays, and the
\* list of devices has, in order and once, every device of the platforms it got
\* through and none of the one it gave up in (opencl::init, getPlatformIDs,
\* getDeviceIDs), whatever is installed and whichever calls fail.
THEOREM InitLeaves == AnySpec => []InitLeavesWhole
<1>1. PartInv => InitLeavesWhole
  BY DEF PartInv, DevicesInv, ReadInv, InitLeavesWhole, OfDevices
<1> QED
  BY <1>1, PartInvHolds, PTL

\* getDevices lists what its match asks for (for "gpu" and "cpu" at least that, and
\* nothing that does not match); initCL takes of the GPUs listed the first with the
\* largest work group, and is left without one only if the driver would not say how
\* large any is: however many devices there are and whatever of them could be read
\* (opencl::getDevices, initCL of the comparison program).
THEOREM SelectedRight == AnySpec => []SelectedAsAsked
<1>1. PartInv => SelectedAsAsked
  BY DevicesSelected DEF PartInv, SelectedAsAsked, OfDevices
<1> QED
  BY <1>1, PartInvHolds, PTL

\* A context shares with OpenGL exactly if that was asked for and the text of one
\* of its devices has the extension as a word, in either case and at either end,
\* for any text (parseExtensions, hasExtension, opencl_context).
THEOREM SharesRight == AnySpec => []SharingAsReported
<1>1. PartInv => SharingAsReported
  BY DEF PartInv, DevicesInv, SharingAsReported, OfDevices
<1> QED
  BY <1>1, PartInvHolds, PTL

\* createProgram answers with the program of the source and options asked for, the
\* one in its cache, and no more files are left open than programs were made,
\* however many of them fail to build (opencl_context::createProgram).
THEOREM AnswersRight == AnySpec => []AnswerIsRight
<1>1. PartInv => AnswerIsRight
  <2> SUFFICES ASSUME ProgramInv PROVE Program!AnswerIsRight /\ Program!OneFilePerKey
    BY DEF PartInv, AnswerIsRight
  <2>1. Program!AnswerIsRight
    BY DEF ProgramInv, AnswerInv, CacheInv, KeyOf, Program!AnswerIsRight
  <2>2. Program!OneFilePerKey
    <3>1. Cardinality({<<programs[p].src, programs[p].options>> : p \in DOMAIN programs})
              = Len(programs)
      BY PairsCounted DEF ProgramInv
    <3>2. openFiles <= Len(programs) + IF pc = "idle" THEN 0 ELSE 1
      <4>1. Len(programs) \in Nat
        BY DEF ProgramInv, ProgramsInv
      <4> QED
        BY <4>1 DEF ProgramInv, FilesInv
    <3>3. \A S : Program!Cardinality(S) = Cardinality(S)
      BY DEF Program!Cardinality, Cardinality
    <3> QED
      BY <3>1, <3>2, <3>3 DEF Program!OneFilePerKey
  <2> QED
    BY <2>1, <2>2
<1> QED
  BY <1>1, PartInvHolds, PTL

\* A program or kernel is released when, and not before, nobody can reach it any
\* more: not through the cache, a handle, or a kernel of the program (the
\* shared_ptrs of opencl_program and opencl_kernel).
THEOREM LivesAsLong == AnySpec => []Lifetimes
<1>1. PartInv => Lifetimes
  <2> SUFFICES ASSUME ProgramInv
               PROVE  Program!ReachableIsUsable /\ Program!UnreachableIsReleased
    BY DEF PartInv, Lifetimes
  <2>1. ASSUME pc = "idle", NEW k \in clKernels PROVE k[1] \in Made
    <3>1. k \in (Made \cup {Len(programs) + 1}) \X Kernels
      BY DEF ProgramInv, HandlesOfProgram
    <3>2. k = <<k[1], k[2]>> /\ k[2] \in Kernels
      BY <3>1
    <3>3. k[1] # Len(programs) + 1
      BY <2>1, <3>2 DEF ProgramInv, HandlesOfProgram
    <3> QED
      BY <3>1, <3>3
  <2>2. Program!UnreachableIsReleased
    BY <2>1 DEF ProgramInv, ReleasedInv, Made, Program!UnreachableIsReleased
  <2> QED
    BY <2>2 DEF ProgramInv
<1> QED
  BY <1>1, PartInvHolds, PTL

\* Events, devices and programs are ones there are, whichever part of the wrapper
\* is used (opencl_command_queue, opencl, opencl_context).
THEOREM TypesCorrect == AnySpec => []TypesOK
<1>1. ASSUME ProgramInv PROVE Program!TypeOK
  <2>1. /\ files \in [Srcs -> {"absent", "locked", "broken", "good"}]
        /\ pc \in {"idle", "stat", "read", "create", "unbuilt", "kernels", "names"}
        /\ programs \in Seq(Program!Program)
    BY <1>1 DEF ProgramInv, ProgramsInv, MakingInv
  <2>2. Program!InCache \cup held \subseteq 1..Len(programs)
    BY <1>1 DEF ProgramInv, CacheInv, HandlesOfProgram, Made, Program!InCache
  <2>3. heldKernels \subseteq (1..Len(programs)) \X Kernels
    BY <1>1 DEF ProgramInv, HandlesOfProgram, Made
  <2>4. PICK n \in Nat : n = Len(programs)
    BY <2>1
  <2>5. (1..n) \cup {n + 1} = 1..n + 1
    BY <2>4
  <2>6. clKernels \subseteq (1..Len(programs) + 1) \X Kernels
    BY <1>1, <2>4, <2>5 DEF ProgramInv, HandlesOfProgram, Made
  <2>7. openFiles \in 0..Len(programs) + 1 /\ answer \in 0..Len(programs)
    BY <1>1, <2>4 DEF ProgramInv, FilesInv, AnswerInv, Made
  <2> QED
    BY <2>1, <2>2, <2>3, <2>6, <2>7 DEF Program!TypeOK
<1>2. Inv => OnlyTasksLeak
  BY DEF Inv
<1>3. PartInv => TypesOK
  BY <1>1, <1>2, InvTyped, DevicesTyped DEF PartInv, TypesOK
<1> QED
  BY <1>3, PartInvHolds, PTL

==============================================================================
