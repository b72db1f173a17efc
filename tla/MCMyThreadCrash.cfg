SPECIFICATION Spec
CONSTANTS
    N = 1
    FirstDetached = 1
INVARIANT
    NeverCrashes
