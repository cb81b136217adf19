CONSTANTS
    Code <- MCCode
    ModuleOf <- MCModuleOf
    Address <- MCAddress
    TrampolineAt <- MCTrampolineAt
    Base <- MCBase
    Image <- MCImage
    Args <- MCArgs
    Cases <- MCCases
    Main = "main"
    Stray = 270
    Uins = {1}
    Loaded = {"mho", "cry", "csys"}
    Relocated = {"cry"}
    MaxCalls = 4
    MaxFrames = 2
SPECIFICATION HookedSpec
INVARIANTS TypeOK CallersReported NamesTheModule ObservesTruly
PROPERTY SameAsUnhooked
CHECK_DEADLOCK FALSE
