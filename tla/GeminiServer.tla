---------------------------- MODULE GeminiServer ----------------------------
(***************************************************************************)
(* One connection from accept to deletion, as the program serves it: the   *)
(* read loop of SSLClient::__on_recv, Manager (src/sources/manager.cpp),   *)
(* GeminiConnection and the callback chain of FileHandler                  *)
(* (src/sources/filehandler.cpp) for a handler with no cgi types.          *)
(*                                                                         *)
(* A libuv callback is one action.  The exception is the do-while loop of  *)
(* __on_recv: each round, one call of Manager::on_read, is an action, and  *)
(* until the loop ends (running = {}) no other callback can start.         *)
(*                                                                         *)
(* External: libuv, the TLS state machine of wolfSSL, the peer.  The peer's*)
(* bytes are TLS records: a handshake flight, a piece of the request line  *)
(* without or with its end, a piece without its end that is longer than    *)
(* the 1024 bytes of one read, a close notice, or something wolfSSL        *)
(* rejects.                                                                *)
(***************************************************************************)
EXTENDS SSLClient, Sequences, FiniteSets

CONSTANTS
    Contexts,           \* the RequestContexts request_allocator hands out
    Segments,           \* what one read of the socket may deliver, a set of
                        \* sequences of Records; <<>> is nread = 0, or bytes
                        \* that do not complete a record
    Routes,             \* where the requests of this run may go
    TIMEOUTS,           \* built without NO_TIMEOUTS (CMakeLists.txt:11)
    HeaderMax,          \* longest request header, in pieces (1024 bytes)
    MaxChunks,          \* bound: longest file, in 1024-byte reads
    MaxListing          \* bound: longest directory listing, in 1024-byte
                        \* blocks

Records == {"hello", "part", "line", "long", "notify", "bad"}

(* No host in the header, a server without handlers, no handler for the    *)
(* path, a path with "..", a file the rules forbid, a file to stat.        *)
AllRoutes ==
    {"unparsable", "nohandlers", "nomatch", "redirect", "illegal", "serve"}

ASSUME ServerAssumption ==
    /\ Segments \in SUBSET Seq(Records)
    /\ Routes \in SUBSET AllRoutes
    /\ TIMEOUTS \in BOOLEAN
    /\ HeaderMax \in Nat \ {0}
    /\ MaxChunks \in Nat
    /\ MaxListing \in Nat \ {0}

VARIABLES
    requests,           \* keys of Manager::requests
    req,                \* [Clients -> Req]
    ctx,                \* [Contexts -> Ctx]
    running             \* {c} while the read loop of c runs, else {}

vars == <<clients, conn, requests, req, ctx, running>>

(***************************************************************************)
(*   inbox      records received and not yet read by wolfSSL, what         *)
(*              hasData() tells                                            *)
(*   rest       wolfSSL has decrypted a long record and on_read has taken  *)
(*              its first 1024 bytes; nobody asks for wolfSSL_pending      *)
(*   tls        handshake not done; done; ended by the peer's notice       *)
(*   length     length of request.header                                   *)
(*   route      where the complete header leads, "none" before             *)
(*   handled    how often a request was dispatched (history)               *)
(*   buffer     blocks in GeminiConnection::buffer                         *)
(***************************************************************************)
Req == [inbox : Seq(Records), rest : BOOLEAN, tls : {"new", "up", "ended"},
        length : Nat, route : AllRoutes \cup {"none"}, handled : Nat, buffer : Nat]

NoReq == [inbox |-> <<>>, rest |-> FALSE, tls |-> "new", length |-> 0,
          route |-> "none", handled |-> 0, buffer |-> 0]

(***************************************************************************)
(*   pc         the file system request in progress for this context, or   *)
(*              "held" (none, but the context is still allocated), "free"  *)
(*   client     ctx->client                                                *)
(*   offset     reads of the file that returned data                       *)
(***************************************************************************)
Stages == {"stat", "open", "read", "close", "scan"}

Ctx == [pc : Stages \cup {"held", "free"}, client : Clients \cup {"none"},
        offset : Nat]

NoCtx == [pc |-> "free", client |-> "none", offset |-> 0]

TypeOK ==
    /\ ConnTypeOK
    /\ requests \in SUBSET Clients
    /\ req \in [Clients -> Req]
    /\ ctx \in [Contexts -> Ctx]
    /\ running \in SUBSET Clients

Init ==
    /\ clients = {}
    /\ conn = [c \in Clients |-> NoConn]
    /\ requests = {}
    /\ req = [c \in Clients |-> NoReq]
    /\ ctx = [x \in Contexts |-> NoCtx]
    /\ running = {}

Idle == running = {} /\ ~Aborted

----------------------------------------------------------------------------
(* GeminiConnection::send takes at most 1024 bytes from its buffer and     *)
(* leaves the rest there: a send of n blocks writes one, n - 1 stay.       *)
Kept(n) == n - 1

(* A whole response of one block: send, then close.                        *)
Reply(k, how) == Close(Write(k, how))

(* setTimeout(1000) for the request line, setTimeout(30000) for a handler. *)
AcceptUntimed(k) == k   \* slip: no limit before the first data
AcceptTimeout(k) == IF TIMEOUTS THEN SetTimeout(k, TRUE) ELSE k

HandlerTimeout(k) == IF TIMEOUTS THEN SetTimeout(k, TRUE) ELSE k

(* Manager::on_close.                                                      *)
RequestKept(c) == UNCHANGED requests    \* slip: the entry stays
RequestErased(c) == requests' = requests \ {c}

(* The condition of the loop in __on_recv, after a round.                  *)
OneRound(k, r) == FALSE     \* slip: one record per callback
ReadsOn(k, r) == IsOpen(k) /\ r.inbox # <<>>

----------------------------------------------------------------------------
(***************************************************************************)
(* Events of the connection.                                               *)
(***************************************************************************)
(* __on_accept and Manager::on_accept.                                     *)
OnAccept(c) ==
    /\ Idle
    /\ conn[c].handle = "none"
    /\ \E t \in GarbageTimeout : Become(c, Listen(AcceptTimeout(NewClient(t))))
    /\ clients' = clients \cup {c}
    /\ requests' = requests \cup {c}
    /\ UNCHANGED <<req, ctx, running>>

(* __on_recv with data, up to the loop.                                    *)
OnRecv(c) ==
    /\ Idle
    /\ c \in clients
    /\ conn[c].reading
    /\ Become(c, ResetTimeout(conn[c]))
    /\ \E s \in Segments : req' = [req EXCEPT ![c].inbox = @ \o s]
    /\ running' = {c}
    /\ UNCHANGED <<clients, requests, ctx>>

(* __on_recv with nread < 0: the end of the stream, or an error.           *)
OnRecvEnd(c) ==
    /\ Idle
    /\ c \in clients
    /\ conn[c].reading
    /\ \E k \in {EndCallback(conn[c]), FailCallback(conn[c])} : Become(c, k)
    /\ UNCHANGED <<clients, requests, req, ctx, running>>

OnWritten(c) ==
    /\ Idle
    /\ CanFinishWrite(c)
    /\ Become(c, WriteCallback(conn[c]))
    /\ UNCHANGED <<clients, requests, req, ctx, running>>

OnTimeout(c) ==
    /\ Idle
    /\ c \in clients
    /\ conn[c].armed
    /\ Become(c, TimerCallback(conn[c]))
    /\ UNCHANGED <<clients, requests, req, ctx, running>>

(* __on_close: Manager::on_close, _on_client_close and the destructor.  The*)
(* close callback the handler registered with the GeminiConnection is not  *)
(* called: the context of an SSLClient is the Manager.                     *)
OnClose(c) ==
    /\ Idle
    /\ CanRelease(c)
    /\ Become(c, Freed(conn[c]))
    /\ clients' = clients \ {c}
    /\ RequestErased(c)
    /\ UNCHANGED <<req, ctx, running>>

----------------------------------------------------------------------------
(***************************************************************************)
(* Manager::on_read, one round of the loop in __on_recv.  The round leaves *)
(* the connection as k and the request as r, and the loop goes on while    *)
(* the object is open and has data.                                        *)
(***************************************************************************)
EndRound(c, k, r) ==
    /\ Become(c, k)
    /\ req' = [req EXCEPT ![c] = r]
    /\ running' = IF ReadsOn(k, r) THEN running ELSE {}
    /\ UNCHANGED <<clients, requests>>

Consumed(c) == [req[c] EXCEPT !.inbox = Tail(@)]

(* client->read: what wolfSSL makes of the next record.  It comes to it    *)
(* once everything of the last one has been read.                          *)
NextIs(c, rec) ==
    ~req[c].rest /\ req[c].inbox # <<>> /\ Head(req[c].inbox) = rec

(* Nothing to read: WANT_READ.                                             *)
ReadNothing(c) ==
    /\ req[c].tls # "ended"
    /\ ~req[c].rest
    /\ req[c].inbox = <<>>
    /\ EndRound(c, conn[c], req[c])
    /\ UNCHANGED ctx

(* wolfSSL answers a handshake flight itself and wants more.               *)
ReadHello(c) ==
    /\ req[c].tls = "new"
    /\ NextIs(c, "hello")
    /\ \E how \in Hows :
          EndRound(c, Write(conn[c], how), [Consumed(c) EXCEPT !.tls = "up"])
    /\ UNCHANGED ctx

(* A TLS error: wolfSSL may send an alert, and the Manager crashes the     *)
(* client.  After the peer's close notice every further read is an error.  *)
TlsError(c) ==
    \/ req[c].tls = "ended"
    \/ NextIs(c, "bad")
    \/ req[c].tls = "new" /\ \E rec \in {"part", "line", "long", "notify"} :
                                NextIs(c, rec)
    \/ req[c].tls = "up" /\ NextIs(c, "hello")

ReadError(c) ==
    /\ TlsError(c)
    /\ \E k \in {conn[c]} \cup {Write(conn[c], how) : how \in Hows} :
          EndRound(c, Crash(k), req[c])
    /\ UNCHANGED ctx

(* read returns up to 1024 bytes of a record, or what is left of it, or 0  *)
(* at the close notice.  Of a long record the first read fills a header.   *)
Reads(c, rec) == req[c].tls = "up" /\ NextIs(c, rec)

DataRead(c) ==
    req[c].rest \/ \E rec \in {"part", "line", "long", "notify"} : Reads(c, rec)

Pieces(c) ==
    CASE NextIs(c, "notify") -> 0
      [] NextIs(c, "long")   -> HeaderMax
      [] OTHER               -> 1

(* The header after the read; what follows the newline is cut off.         *)
Longer(r, n) == IF r.route = "none" THEN [r EXCEPT !.length = @ + n] ELSE r

Taken(c) ==
    IF req[c].rest THEN [req[c] EXCEPT !.rest = FALSE]
    ELSE IF NextIs(c, "notify") THEN [Consumed(c) EXCEPT !.tls = "ended"]
    ELSE [Consumed(c) EXCEPT !.rest = NextIs(c, "long")]

AfterRead(c) == Longer(Taken(c), Pieces(c))

(* The bytes of the header before it is cut at its newline.                *)
HeaderLength(c) == req[c].length + Pieces(c)

HeaderFinished(c) == req[c].route # "none" \/ NextIs(c, "line")

ReadTooLong(c) ==
    /\ DataRead(c)
    /\ HeaderLength(c) > HeaderMax
    /\ EndRound(c, Crash(conn[c]), AfterRead(c))
    /\ UNCHANGED ctx

ReadPart(c) ==
    /\ DataRead(c)
    /\ HeaderLength(c) <= HeaderMax
    /\ ~HeaderFinished(c)
    /\ EndRound(c, conn[c], AfterRead(c))
    /\ UNCHANGED ctx

(* "The request is finished": it is parsed and given to a handler.  The    *)
(* same header leads to the same route each time.                          *)
CanDispatch(c, route) ==
    /\ DataRead(c)
    /\ HeaderLength(c) <= HeaderMax
    /\ HeaderFinished(c)
    /\ route \in Routes
    /\ req[c].route \in {"none", route}

Dispatched(c, route) ==
    [AfterRead(c) EXCEPT !.route = route, !.handled = @ + 1]

Reject(c) ==
    \E route \in {"unparsable", "nohandlers"} :
        /\ CanDispatch(c, route)
        /\ EndRound(c, Crash(StopListening(conn[c])), Dispatched(c, route))
        /\ UNCHANGED ctx

RefuseUnmatched(c) ==
    /\ CanDispatch(c, "nomatch")
    /\ \E how \in Hows :
          EndRound(c, Reply(StopListening(conn[c]), how), Dispatched(c, "nomatch"))
    /\ UNCHANGED ctx

(* FileHandler::handle, the answers it gives at once.                      *)
HandleAtOnce(c) ==
    \E route \in {"redirect", "illegal"}, how \in Hows :
        /\ CanDispatch(c, route)
        /\ EndRound(c, Reply(HandlerTimeout(StopListening(conn[c])), how),
                    Dispatched(c, route))
        /\ UNCHANGED ctx

(* FileHandler::handle, a file to look up.                                 *)
HandleFile(c) ==
    /\ CanDispatch(c, "serve")
    /\ EndRound(c, HandlerTimeout(StopListening(conn[c])), Dispatched(c, "serve"))
    /\ \E x \in Contexts :
          /\ ctx[x].pc = "free"
          /\ ctx' = [ctx EXCEPT ![x] =
                        [pc |-> "stat", client |-> c, offset |-> 0]]

OnRead(c) ==
    /\ ~Aborted
    /\ c \in running
    /\ \/ ReadNothing(c) \/ ReadHello(c) \/ ReadError(c)
       \/ ReadTooLong(c) \/ ReadPart(c)
       \/ Reject(c) \/ RefuseUnmatched(c) \/ HandleAtOnce(c) \/ HandleFile(c)

----------------------------------------------------------------------------
(***************************************************************************)
(* The callbacks of FileHandler.  Each of them uses ctx->client, so it has *)
(* a defined outcome only while that connection exists.                    *)
(***************************************************************************)
Callback(x, stage) ==
    /\ Idle
    /\ ctx[x].pc = stage
    /\ ctx[x].client \in requests
    /\ UNCHANGED <<clients, requests, running>>

Goto(x, pc) == ctx' = [ctx EXCEPT ![x].pc = pc]
Free(x) == ctx' = [ctx EXCEPT ![x] = NoCtx]

(* slips: no return after an answer, so close is reached again; no close   *)
AnswerClosesTwice(x) ==
    LET c == ctx[x].client
    IN  \E how \in Hows : Become(c, Close(Reply(conn[c], how))) /\ UNCHANGED req
AnswerOnly(x) ==
    LET c == ctx[x].client
    IN  \E how \in Hows : Become(c, Write(conn[c], how)) /\ UNCHANGED req

(* A one-block response to the client of x.                                *)
Answer(x) ==
    LET c == ctx[x].client
    IN  \E how \in Hows : Become(c, Reply(conn[c], how)) /\ UNCHANGED req

(* Not found, neither file nor directory, or to be redirected to the other *)
(* form of its name: an answer.  Otherwise the directory or file is read.  *)
HandleOnStat(x) ==
    /\ Callback(x, "stat")
    /\ \/ Answer(x) /\ Goto(x, "held")
       \/ \E next \in {"scan", "open"} : Goto(x, next) /\ UNCHANGED <<conn, req>>

FileOnOpen(x) ==
    LET c == ctx[x].client
    IN  /\ Callback(x, "open")
        /\ \/ Answer(x) /\ Goto(x, "held")
           \/ /\ \E how \in Hows : Become(c, Write(conn[c], how))
              /\ ctx' = [ctx EXCEPT ![x].pc = "read", ![x].offset = 0]
              /\ UNCHANGED req

(* Data is passed on; the end of the file, or an error, ends the response. *)
FileOnRead(x) ==
    LET c == ctx[x].client
    IN  /\ Callback(x, "read")
        /\ UNCHANGED req
        /\ \/ Become(c, Close(conn[c])) /\ Goto(x, "close")
           \/ /\ ctx[x].offset < MaxChunks
              /\ \E how \in Hows : Become(c, Write(conn[c], how))
              /\ ctx' = [ctx EXCEPT ![x].offset = @ + 1]

(* The file is closed; nobody deallocates the context.                     *)
FileOnClose(x) ==
    /\ Idle
    /\ ctx[x].pc = "close"
    /\ Goto(x, "held")
    /\ UNCHANGED <<clients, conn, requests, req, running>>

(* An index file is read instead of the directory; a directory that cannot *)
(* or may not be read is an answer; otherwise the header and the listing   *)
(* are sent.                                                               *)
DirOnScan(x) ==
    LET c == ctx[x].client
    IN  /\ Callback(x, "scan")
        /\ \/ Answer(x) /\ Free(x)
           \/ Goto(x, "open") /\ UNCHANGED <<conn, req>>
           \/ \E n \in 1..MaxListing, header, listing \in Hows :
                 /\ Become(c, Close(Write(Write(conn[c], header), listing)))
                 /\ req' = [req EXCEPT ![c].buffer = @ + Kept(n)]
                 /\ Free(x)

----------------------------------------------------------------------------
ClientStep(c) ==
    \/ OnAccept(c) \/ OnRecv(c) \/ OnRecvEnd(c) \/ OnRead(c)
    \/ OnWritten(c) \/ OnTimeout(c) \/ OnClose(c)

FileStep(x) ==
    \/ HandleOnStat(x) \/ FileOnOpen(x) \/ FileOnRead(x)
    \/ FileOnClose(x) \/ DirOnScan(x)

Next == (\E c \in Clients : ClientStep(c)) \/ (\E x \in Contexts : FileStep(x))

Spec == Init /\ [][Next]_vars

(***************************************************************************)
(* Fairness.  A callback libuv has due is run: the loop in __on_recv goes  *)
(* on, a shut handle is released after its writes are cancelled, a running *)
(* timer fires.  File system requests complete.  Only where it is stated   *)
(* does the peer also keep reading what is written to it.                  *)
(***************************************************************************)
CancelWrite(c) == OnWritten(c) /\ conn[c].handle # "open"

LoopFairness ==
    \A c \in Clients :
        WF_vars(OnRead(c)) /\ WF_vars(OnClose(c))
        /\ WF_vars(CancelWrite(c)) /\ WF_vars(OnTimeout(c))

FileFairness == \A x \in Contexts : WF_vars(FileStep(x))

PeerFairness == \A c \in Clients : WF_vars(OnWritten(c))

FairSpec == Spec /\ LoopFairness /\ FileFairness

ReadingPeerSpec == FairSpec /\ PeerFairness

----------------------------------------------------------------------------
(***************************************************************************)
(* Safety.                                                                 *)
(***************************************************************************)
(* The Manager's map holds exactly the live connections, so on_read never  *)
(* makes an entry out of nothing and no entry outlives its connection      *)
(* (manager.cpp:181, 302, 365-371).                                        *)
RequestsAreClients == requests = clients

(* While a file system request of a handler is pending, the client it will *)
(* answer exists, is open and was not asked to close: the contract of      *)
(* handler.hpp:133-135 as the callbacks of filehandler.cpp need it.        *)
NeedsClient == Stages \ {"close"}

ClientOutlivesRequest ==
    \A x \in Contexts :
        ctx[x].pc \in NeedsClient =>
            LET c == ctx[x].client
            IN  c \in requests /\ conn[c].handle = "open" /\ ~conn[c].queued_close

(* No sequence of events closes a handle twice, which would end the        *)
(* process on libuv's assertion (server.cpp:238-260 does not test for it). *)
NeverClosedTwice == ~Aborted

(* A connection that was closed, not reset, had sent all it was given:     *)
(* nothing is left in flight nor in the buffer of its GeminiConnection     *)
(* (handler.hpp:88-94, 104-107, manager.cpp:45-70).                        *)
GracefulCloseDelivers ==
    \A c \in Clients :
        conn[c].handle = "closing" => conn[c].inflight = 0 /\ req[c].buffer = 0

(* A close the program asked for is never forgotten: it waits behind a     *)
(* write that libuv will report.  A write libuv refused, whose result _send*)
(* does not look at, would stay counted and hold the close for ever; only a*)
(* read that fails makes libuv refuse, and nobody writes to such a client  *)
(* (server.cpp:49-62, 86-90, 238-250, manager.cpp:332).                    *)
NoCloseForgotten ==
    \A c \in Clients : conn[c].queued_close => conn[c].inflight > 0

(* A connection's request is dispatched at most once (manager.cpp:331).    *)
HandledOnce == \A c \in Clients : req[c].handled <= 1

(* The read loop leaves no record behind on a connection that stays open:  *)
(* no event would come to read it.  The rest of a long record it does leave*)
(* in wolfSSL, where hasData() does not see it, but only with the header   *)
(* at its limit: no byte of an acceptable request is ever left             *)
(* (server.cpp:99-103, server.hpp:66, manager.cpp:303-323).                *)
NothingLeftUnread ==
    \A c \in clients :
        Idle /\ IsOpen(conn[c]) =>
            /\ req[c].inbox = <<>>
            /\ req[c].rest => req[c].length = HeaderMax /\ req[c].route = "none"

(* A header over the limit is discarded when it has been received          *)
(* (manager.cpp:319-323).                                                  *)
LongHeaderDiscarded ==
    \A c \in clients : Idle /\ IsOpen(conn[c]) => ~req[c].rest

(* Every live connection waits for something that can still happen: data,  *)
(* a write, its close callback, a file system request or its timer.        *)
WaitsForSomething ==
    \A c \in clients :
        \/ c \in running \/ Aborted
        \/ conn[c].reading \/ conn[c].inflight > 0 \/ conn[c].armed
        \/ conn[c].handle # "open"
        \/ \E x \in Contexts : ctx[x].client = c /\ ctx[x].pc \in NeedsClient

(* No timer is left running on a connection that is being closed, by any   *)
(* of the ways to close it (server.cpp:138-163, 238-260).                  *)
TimerStopsWithConnection ==
    \A c \in Clients : conn[c].closing => ~conn[c].armed

(* With timeouts built in, no open connection is ever without a running    *)
(* timer (manager.cpp:183-185, 351-353, server.cpp:214-220).               *)
TimerAlwaysArmed ==
    TIMEOUTS => \A c \in clients : IsOpen(conn[c]) => conn[c].armed

(* A context whose file system work is over belongs to a live connection:  *)
(* the close callback registered at filehandler.cpp:169 gives it back when *)
(* the client goes (handler.hpp:109-115, filehandler.cpp:116-120).         *)
ContextsReclaimed ==
    \A x \in Contexts : ctx[x].pc = "held" => ctx[x].client \in requests

(***************************************************************************)
(* Liveness.                                                               *)
(***************************************************************************)
(* A dispatched request ends with its connection released, if the peer     *)
(* keeps reading: whatever the files do, the handler closes the client.    *)
DispatchedRequestEnds ==
    \A c \in Clients : (req[c].handled > 0) ~> (c \notin clients)

(* A peer that falls silent, or stops reading, loses its connection.       *)
SilentPeerDropped ==
    \A c \in Clients :
        <>[][~OnRecv(c)]_vars => ((c \in clients) ~> (c \notin clients))

=============================================================================
