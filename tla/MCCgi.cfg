\* Two requests for a script, in the build with timeouts, answered within the
\* timer's thirty seconds; scripts that write up to two blocks.
CONSTANTS
    Clients = {c1, c2}
    GarbageTimeout = {FALSE}
    SIZE_MAX = 7
    TIMEOUTS = TRUE
    SlowScripts = FALSE
    MaxOutput = 2
SPECIFICATION FairSpec
INVARIANTS
    RunnerHasClient
    ClosedOnce
PROPERTIES
    ScriptEndReleasesClient
\* A script may run for ever, and the process ends on a second close.
CHECK_DEADLOCK FALSE
