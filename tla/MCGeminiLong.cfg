\* A request line longer than one read, in one record.
CONSTANTS
    Clients = {c1}
    Contexts = {x1}
    GarbageTimeout = {FALSE}
    SIZE_MAX = 7
    Segments <- WaitingPeer
    Routes = {"unparsable", "nohandlers", "nomatch", "redirect", "illegal", "serve"}
    TIMEOUTS = FALSE
    HeaderMax = 2
    MaxChunks = 1
    MaxListing = 1
SPECIFICATION Spec
INVARIANT LongHeaderDiscarded
CHECK_DEADLOCK FALSE
