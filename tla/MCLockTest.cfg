SPECIFICATION FairSpec
CONSTANTS
    Threads = {t1, t2, t3}
    Iterations = 2
    FirstSpins = 1
    MaxSpins = 2
    Locks = {"mutex", "spinlock"}
INVARIANTS
    MutualExclusion
PROPERTIES
    CountsAtomically
    SpinThreadsReturn
