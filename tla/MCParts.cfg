\* Six parts, each on its own: pipes from either constructor, writes that fit,
\* that make the queue move, that make the memory grow; a full stack of two
\* items and three chunks; two processes; three server and two handler files with
\* two names; the table of 349 extensions with its two misplaced pairs.
CONSTANTS
    Bytes = {a, b}
    InitialSizes = {0, 1, 3}
    MaxWrite = 2
    MaxQueued = 2
    Chunks = {h1, h2, h3}
    Stack = stack
    alloc_size = 2
    Executors = {e1, e2}
    ServerFiles = {s1, s2, s3}
    HandlerFiles = {f1, f2}
    Names = {n1, n2}
    MaxPort = 70
    Headers <- MCHeaders
    HandlerLists <- MCHandlerLists
    Dir <- MCDir
    Entries = 349
    Swapped = {75, 80}
SPECIFICATION PartsSpec
INVARIANTS
    InBounds
    NoIdleChunk
    HandleFollowsChild
    PortsServed
    ParsedAsUrl
    ServedFromFolder
    RedirectSettles
    FindsWhatIsListed
PROPERTIES
    QueueSpec
    RawOnlyWhenFull
    PoolSpec
\* Start-up, a request and a search end.
CHECK_DEADLOCK FALSE
