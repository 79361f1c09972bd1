SPECIFICATION SoundSpec
CONSTANTS
    MaxCommands = 3
    MaxTasks = 2
    Systems <- SmallSystems
    DeviceNames = {"north"}
    Types <- DeviceTypes
    MaxSize = 2
    DeviceFaults = {"platforms", "devices", "context"}
    MaxContexts = 1
    Characters = {"a", "b", ",", "x", "g", "G", " "}
    Srcs <- TwoSrcs
    Options <- TwoOptions
    Kernels = {"encrypt"}
    ProgramFaults = {"create", "kernels", "names"}
    MaxPrograms = 2
INVARIANT
    ListedOnOnePlatform
CHECK_DEADLOCK FALSE
