\* Built with timeouts, a peer that may stop reading at any time, requests
\* that are answered at once (MCGeminiOutlives has the others).
CONSTANTS
    Clients = {c1}
    Contexts = {x1}
    GarbageTimeout = {TRUE, FALSE}
    SIZE_MAX = 7
    Segments <- TalkativePeer
    Routes = {"unparsable", "nohandlers", "nomatch", "redirect", "illegal"}
    TIMEOUTS = TRUE
    HeaderMax = 2
    MaxChunks = 1
    MaxListing = 1
SPECIFICATION FairSpec
INVARIANTS
    TimerAlwaysArmed
    NeverClosedTwice
    TimerStopsWithConnection
PROPERTIES
    SilentPeerDropped
CHECK_DEADLOCK FALSE
