\* A user who keeps to the header, bodies that fit, a limit for two of them.
CONSTANTS
    Keys = {1, 2, 3}
    Callbacks = {f, g}
    Args = {a}
    Sizes = {0, 1, 2}
    Lifetimes = {0, 1, 2}
    MaxSize = 3
    UINT_MAX = 7
    Uses = {"invalidate"}
    MaxJobs = 2
SPECIFICATION FairSpec
INVARIANTS
    SizeIsSum
    AddEnds
PROPERTIES
    DataExpires
CHECK_DEADLOCK FALSE
