SPECIFICATION AnySpec
CONSTANTS
    MaxCommands = 3
    MaxTasks = 2
    Systems <- SmallSystems
    DeviceNames = {"north"}
    Types <- DeviceTypes
    MaxSize = 2
    DeviceFaults = {"platforms", "devices", "context"}
    MaxContexts = 1
    Characters = {"a", "b", ",", "x", "g", "G", " "}
    Srcs <- TwoSrcs
    Options <- TwoOptions
    Kernels = {"encrypt"}
    ProgramFaults = {"create", "kernels", "names"}
    MaxPrograms = 2
INVARIANTS
    TypesOK
    SelectedAsAsked
    InitLeavesWhole
    SharingAsReported
    AnswerIsRight
    Lifetimes
    WaitListHonoured
    AwaitedIsOver
PROPERTY
    CallsReturn
\* A queue that is full, and a program that has exited, stop.
CHECK_DEADLOCK FALSE
