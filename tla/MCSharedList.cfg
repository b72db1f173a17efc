SPECIFICATION FairSpec
CONSTANTS
    Items = {n1, n2, n3}
    First = First
    NoNode = NoNode
    Lengths = {1, 2}
    Traversers = {"asc", "desc"}
    Swappers = {"swap_asc", "swap_equal"}
    Shared = TRUE
INVARIANTS
    ListIsOrder
    SwapFindsPair
    PassesSeeAll
    LocksInListOrder
PROPERTY
    PassesKeepEnding
