\* One connection to the end, every route, no timer: the peer keeps reading.
CONSTANTS
    Clients = {c1}
    Contexts = {x1}
    GarbageTimeout = {FALSE}
    SIZE_MAX = 7
    Segments <- WaitingPeer
    Routes = {"unparsable", "nohandlers", "nomatch", "redirect", "illegal", "serve"}
    TIMEOUTS = FALSE
    HeaderMax = 2
    MaxChunks = 2
    MaxListing = 1
SPECIFICATION ReadingPeerSpec
INVARIANTS
    TypeOK
    HandledOnce
    GracefulCloseDelivers
    NothingLeftUnread
PROPERTIES
    DispatchedRequestEnds
CHECK_DEADLOCK FALSE
