------------------------------- MODULE Parts -------------------------------
(***************************************************************************)
(* The parts that work alone: the byte pipe, the allocator, an Executor    *)
(* under any user, the start of the process, the way from a request to a   *)
(* file, and the search for a MIME type.  A behaviour is one of one part,  *)
(* the others rest in a fixed state.                                       *)
(***************************************************************************)
EXTENDS BufferPipe, Allocator

CONSTANTS
    Executors,
    ServerFiles, HandlerFiles, Names,
    MaxPort, Headers, HandlerLists, Dir,
    Entries, Swapped

VARIABLES
    part,
    exec, life,
    phase, todo, server, servers, handler_map,
    stage, header, handlers, request, target, file,
    extension, min, max, found

pool == allocatorVars
child == <<exec, life>>
startup == <<phase, todo, server, servers, handler_map>>
capsule == <<stage, header, handlers, request, target, file>>
mime == <<extension, min, max, found>>

Children == INSTANCE ExecutorUser
Starts == INSTANCE Startup WITH handlers <- handler_map
Requests == INSTANCE FileRequest
Types == INSTANCE MimeTypes

(* Each pair of entries in the wrong order is one of neighbours.           *)
ASSUME TableAssumption ==
    /\ Entries \in Nat
    /\ Swapped \subseteq 1..(Entries - 1)
    /\ \A i \in Swapped : i + 1 \notin Swapped

ASSUME StartupAssumption == Starts!NoServer \notin ServerFiles

(* The parts at rest.                                                      *)
PipeRests == Init /\ size = 0
ChildRests == Children!Init
StartupRests == Starts!Init
RequestRests ==
    /\ stage = "at rest"
    /\ header = <<>> /\ handlers = <<>> /\ request = <<>>
    /\ target = <<>> /\ file = <<>>
MimeRests == extension = 0 /\ min = 0 /\ max = 0 /\ found = Types!Searching

PartsInit ==
    /\ AllocatorInit /\ ChildRests /\ StartupRests
    /\ \/ /\ part \in {"pool", "child", "startup"}
          /\ PipeRests /\ RequestRests /\ MimeRests
       \/ part = "pipe" /\ Init /\ RequestRests /\ MimeRests
       \/ part = "request" /\ Requests!Init /\ PipeRests /\ MimeRests
       \/ part = "mime" /\ Types!Init /\ PipeRests /\ RequestRests

PartsNext ==
    /\ UNCHANGED part
    /\ \/ /\ part = "pipe" /\ Next
          /\ UNCHANGED <<pool, child, startup, capsule, mime>>
       \/ /\ part = "pool" /\ AllocatorNext
          /\ UNCHANGED <<vars, child, startup, capsule, mime>>
       \/ /\ part = "child" /\ Children!Next
          /\ UNCHANGED <<vars, pool, startup, capsule, mime>>
       \/ /\ part = "startup" /\ Starts!Next
          /\ UNCHANGED <<vars, pool, child, capsule, mime>>
       \/ /\ part = "request" /\ Requests!Next
          /\ UNCHANGED <<vars, pool, child, startup, mime>>
       \/ /\ part = "mime" /\ Types!Next
          /\ UNCHANGED <<vars, pool, child, startup, capsule>>

PartsSpec == PartsInit /\ [][PartsNext]_<<part, vars, pool, child, startup, capsule, mime>>

----------------------------------------------------------------------------
(* The process handle of an Executor is kept while its child may still be  *)
(* reported, and given back after (executor.cpp:29-33, 127-132).           *)
HandleFollowsChild == Children!HandleFollowsChild

(* A taken port belongs to a loaded server of the map (server.cpp:344-413, *)
(* manager.cpp:110-116, 173-178).                                          *)
PortsServed == Starts!PortsServed

(* An ordinary URL is taken apart as a URL is (manager.cpp:190-298).       *)
ParsedAsUrl == Requests!ParsedAsUrl

(* The file looked up lies in the handler's folder (filehandler.cpp:78,    *)
(* 136-157).                                                               *)
ServedFromFolder == Requests!ServedFromFolder

(* Who follows a redirect finds the same file and is not redirected by the *)
(* same test (filehandler.cpp:139-149, 184-210).                           *)
RedirectSettles == Requests!RedirectSettles

(* The search finds what the table lists in order (MimeTypes.cpp:13-28).   *)
FindsWhatIsListed == Types!FindsWhatIsListed

=============================================================================
