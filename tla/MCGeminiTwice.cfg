\* More data right behind the request line.
CONSTANTS
    Clients = {c1}
    Contexts = {x1, x2}
    GarbageTimeout = {FALSE}
    SIZE_MAX = 7
    Segments <- TalkativePeer
    Routes = {"unparsable", "nohandlers", "nomatch", "redirect", "illegal", "serve"}
    TIMEOUTS = FALSE
    HeaderMax = 2
    MaxChunks = 1
    MaxListing = 1
SPECIFICATION Spec
INVARIANT HandledOnce
CHECK_DEADLOCK FALSE
