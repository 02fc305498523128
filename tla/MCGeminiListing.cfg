\* A directory listing of more than 1024 bytes.
CONSTANTS
    Clients = {c1}
    Contexts = {x1}
    GarbageTimeout = {FALSE}
    SIZE_MAX = 7
    Segments <- WaitingPeer
    Routes = {"unparsable", "nohandlers", "nomatch", "redirect", "illegal", "serve"}
    TIMEOUTS = FALSE
    HeaderMax = 2
    MaxChunks = 1
    MaxListing = 2
SPECIFICATION Spec
INVARIANT GracefulCloseDelivers
CHECK_DEADLOCK FALSE
