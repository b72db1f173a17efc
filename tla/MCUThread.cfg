SPECIFICATION FairSpec
CONSTANTS
    N = 4
    MaxYields = 3
    Main = Main
    NoThread = NoThread
INVARIANTS
    ReadyListExact
    CpuIsCurrent
PROPERTIES
    RunsToCompletion
    EveryThreadFinishes
