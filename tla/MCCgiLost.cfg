\* One script that writes one block: its exit is reported before the block is
\* read.
CONSTANTS
    Clients = {c1}
    GarbageTimeout = {FALSE}
    SIZE_MAX = 7
    TIMEOUTS = FALSE
    SlowScripts = FALSE
    MaxOutput = 1
SPECIFICATION Spec
INVARIANTS
    OutputRelayed
CHECK_DEADLOCK FALSE
