\* Two connections and their file requests interleaved, no timer.
CONSTANTS
    Clients = {c1, c2}
    Contexts = {x1, x2}
    GarbageTimeout = {FALSE}
    SIZE_MAX = 7
    Segments <- WaitingPeer
    Routes = {"unparsable", "nohandlers", "nomatch", "redirect", "illegal", "serve"}
    TIMEOUTS = FALSE
    HeaderMax = 2
    MaxChunks = 1
    MaxListing = 1
SPECIFICATION Spec
SYMMETRY Symmetry
INVARIANTS
    RequestsAreClients
    ClientOutlivesRequest
    NeverClosedTwice
    WaitsForSomething
    NoCloseForgotten
CHECK_DEADLOCK FALSE
