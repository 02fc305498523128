\* Two connections, at most two unfinished writes each, the uninitialised
\* time limit zero or not.
CONSTANTS
    Clients = {c1, c2}
    GarbageTimeout = {TRUE, FALSE}
    SIZE_MAX = 7
    MaxWrites = 2
SPECIFICATION Spec
SYMMETRY Symmetry
INVARIANTS
    TypeOK
    WritesAccounted
    IsOpenAgrees
PROPERTIES
    NoWriteAfterClose
    LifecycleSpec
CHECK_DEADLOCK FALSE
