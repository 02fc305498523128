\* As built by default: the time limit is whatever the memory held.
CONSTANTS
    Clients = {c1}
    Contexts = {x1}
    GarbageTimeout = {TRUE}
    SIZE_MAX = 7
    Segments <- WaitingPeer
    Routes = {"unparsable", "nohandlers", "nomatch", "redirect", "illegal", "serve"}
    TIMEOUTS = FALSE
    HeaderMax = 2
    MaxChunks = 1
    MaxListing = 1
SPECIFICATION Spec
INVARIANT ClientOutlivesRequest
CHECK_DEADLOCK FALSE
