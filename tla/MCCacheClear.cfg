\* Bodies that fit, and a cache that is cleared.
CONSTANTS
    Keys = {1, 2}
    Callbacks = {f}
    Args = {a}
    Sizes = {1, 2}
    Lifetimes = {0, 1}
    MaxSize = 3
    UINT_MAX = 7
    Uses = {"clear"}
    MaxJobs = 2
SPECIFICATION Spec
INVARIANT AddEnds
CHECK_DEADLOCK FALSE
