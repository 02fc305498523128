\* A file is served and its connection is over.
CONSTANTS
    Clients = {c1}
    Contexts = {x1}
    GarbageTimeout = {FALSE}
    SIZE_MAX = 7
    Segments <- WaitingPeer
    Routes = {"unparsable", "nohandlers", "nomatch", "redirect", "illegal", "serve"}
    TIMEOUTS = FALSE
    HeaderMax = 2
    MaxChunks = 1
    MaxListing = 1
SPECIFICATION Spec
INVARIANT ContextsReclaimed
CHECK_DEADLOCK FALSE
