\* A user who also clears the cache and loads keys again, and bodies that may
\* be larger than the limit.
CONSTANTS
    Keys = {1, 2}
    Callbacks = {f, g}
    Args = {a}
    Sizes = {0, 1, 2, 4}
    Lifetimes = {0, 1, 2}
    MaxSize = 3
    UINT_MAX = 7
    Uses = {"invalidate", "clear", "reuse"}
    MaxJobs = 2
SPECIFICATION Spec
INVARIANTS
    LimitHolds
    NobodyWaitsForLoaded
    LoadingUntimed
CHECK_DEADLOCK FALSE
