------------------------------ MODULE Startup ------------------------------
(***************************************************************************)
(* From main to the loop: Manager::loadServers, loadHandlers, startServers *)
(* (src/sources/manager.cpp), loader.cpp, and SSLServer::load, listen and  *)
(* ~SSLServer (server.cpp).  A file is read once, so what it says is       *)
(* chosen when it is read; files come in any order.  A folder that cannot  *)
(* be read is one without files of interest.                               *)
(***************************************************************************)
EXTENDS Naturals, Sequences, FiniteSets

CONSTANTS
    ServerFiles,        \* in the folder "servers"; an SSLServer has the name
                        \* of its file
    HandlerFiles,       \* in the folder "handlers"
    Names               \* of servers, in either

NoServer == "no server"

VARIABLES
    phase,              \* what main is about, or how the process ended
    todo,               \* files not yet read, servers not yet started
    server,             \* [ServerFiles -> [wolfssl, handle]]
    servers,            \* the map: [Names -> ServerFiles or NoServer]
    handlers            \* the map: [ServerFiles -> Seq(HandlerFiles)]

vars == <<phase, todo, server, servers, handlers>>

(***************************************************************************)
(* wolfssl: the TLS context is there.  handle: "none" (a null pointer that *)
(* never was, or whose bind failed), "bound", "listening", "refused" (null *)
(* since listen failed), "closed" (with the SSLServer).                    *)
(***************************************************************************)
New == [wolfssl |-> FALSE, handle |-> "none"]

Init ==
    /\ phase = "servers"
    /\ todo = ServerFiles
    /\ server = [f \in ServerFiles |-> New]
    /\ servers = [n \in Names |-> NoServer]
    /\ handlers = [f \in ServerFiles |-> <<>>]

(* SSLServer::load: no context, certificate or key; no port; or all.       *)
Loaded == {New, [wolfssl |-> TRUE, handle |-> "bound"]}

DestroyedOpen(s) == [s EXCEPT !.wolfssl = FALSE]  \* slip: the port stays bound

(* ~SSLServer.                                                             *)
Destroyed(s) ==
    [wolfssl |-> FALSE, handle |-> IF s.handle = "bound" THEN "closed" ELSE s.handle]

Read(f) ==
    /\ f \in todo
    /\ todo' = todo \ {f}

(* is_yaml is false, or a setting is wrong: the file is passed over.       *)
PassOver(f) ==
    /\ phase \in {"servers", "handlers"}
    /\ Read(f)
    /\ UNCHANGED <<phase, server, servers, handlers>>

(* YAML::LoadFile throws outside the try of a function that is noexcept.   *)
Terminate(f) ==
    /\ phase \in {"servers", "handlers"}
    /\ f \in todo
    /\ phase' = "terminated"
    /\ UNCHANGED <<todo, server, servers, handlers>>

(* The name is looked for after the server was loaded; where the map has   *)
(* it already, insert keeps the first.                                     *)
LoadServer(f) ==
    /\ phase = "servers"
    /\ Read(f)
    /\ \E s \in Loaded :
          \/ \E n \in Names :
                /\ servers[n] = NoServer
                /\ servers' = [servers EXCEPT ![n] = f]
                /\ server' = [server EXCEPT ![f] = s]
          \/ /\ server' = [server EXCEPT ![f] = Destroyed(s)]
             /\ UNCHANGED servers
    /\ UNCHANGED <<phase, handlers>>

(* The factory made the handler before its server is looked up.            *)
LoadHandler(f) ==
    /\ phase = "handlers"
    /\ Read(f)
    /\ \E n \in Names :
          /\ servers[n] # NoServer
          /\ handlers' = [handlers EXCEPT ![servers[n]] = Append(@, f)]
    /\ UNCHANGED <<phase, server, servers>>

Started == {n \in Names : servers[n] # NoServer}

NextPhase ==
    /\ todo = {}
    /\ \/ phase = "servers" /\ phase' = "handlers" /\ todo' = HandlerFiles
       \/ phase = "handlers" /\ phase' = "start" /\ todo' = Started
       \/ phase = "start" /\ phase' = "run" /\ todo' = {}
    /\ UNCHANGED <<server, servers, handlers>>

(* SSLServer::listen; startServers does not ask isLoaded.  uv_listen on a  *)
(* null handle ends the process.                                           *)
ListenFailed(s) == [wolfssl |-> FALSE, handle |-> "refused"]

Listen(n) ==
    /\ phase = "start"
    /\ server[servers[n]].handle = "bound"
    /\ Read(n)
    /\ \E s \in {[server[servers[n]] EXCEPT !.handle = "listening"],
                 ListenFailed(server[servers[n]])} :
          server' = [server EXCEPT ![servers[n]] = s]
    /\ UNCHANGED <<phase, servers, handlers>>

ListenOnNull(n) ==
    /\ phase = "start"
    /\ n \in todo
    /\ server[servers[n]].handle = "none"
    /\ phase' = "crashed"
    /\ UNCHANGED <<todo, server, servers, handlers>>

Next ==
    \/ NextPhase
    \/ \E f \in todo : PassOver(f) \/ Terminate(f) \/ LoadServer(f) \/ LoadHandler(f)
    \/ \E n \in todo : Listen(n) \/ ListenOnNull(n)

----------------------------------------------------------------------------
(* A port is taken only for a server that is in the map, and has its TLS   *)
(* context, also after a duplicate name, a missing name or a failed        *)
(* listen; and the loop runs only if every server of the map had loaded    *)
(* (server.cpp:344-413, manager.cpp:110-116, 173-178).                     *)
Open(f) == server[f].handle \in {"bound", "listening"}

PortsServed ==
    /\ \A f \in ServerFiles :
          /\ Open(f) <=> server[f].wolfssl
          /\ Open(f) => \E n \in Names : servers[n] = f
    /\ phase = "run" =>
          \A n \in Started : server[servers[n]].handle \in {"listening", "refused"}

=============================================================================
