SPECIFICATION FairSpec
CONSTANTS
    N = 4
    FirstDetached = 2
INVARIANTS
    JoinGetsResult
    RunningKeepsStack
    NoStackLeak
PROPERTY
    MainEnds
