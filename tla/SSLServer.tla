----------------------------- MODULE SSLServer -----------------------------
(***************************************************************************)
(* SSLServer and its SSLClients under a context that may do anything: once *)
(* a connection is in `clients`, and until it leaves, the context may call *)
(* every public method of the object, in any order and any number of       *)
(* times.  What holds here holds for every ServerContext/ClientContext     *)
(* that can be written against server.hpp (whose on_write is empty, as     *)
(* Manager's is).  GeminiServer is the one context the program has.        *)
(***************************************************************************)
EXTENDS SSLClient

CONSTANT MaxWrites      \* bound: the context stops writing to a connection
                        \* that has this many writes unfinished

ASSUME WritesAssumption == MaxWrites \in Nat

vars == connVars

Running == ~Aborted

Init ==
    /\ clients = {}
    /\ conn = [c \in Clients |-> NoConn]

----------------------------------------------------------------------------
(* __on_accept: on_accept of the context starts reading; without a context *)
(* the object is crashed at once.                                          *)
Accepted(k) == {Listen(k), Crash(k)}

OnAccept(c) ==
    /\ conn[c].handle = "none"
    /\ clients' = clients \cup {c}
    /\ \E t \in GarbageTimeout : \E k \in Accepted(NewClient(t)) : Become(c, k)

(* __on_recv with data; what on_read does with it is a step of the context.*)
OnRecv(c) ==
    /\ c \in clients
    /\ conn[c].reading
    /\ Become(c, ResetTimeout(conn[c]))
    /\ UNCHANGED clients

(* __on_recv with nread < 0: the end of the stream, or an error.           *)
OnRecvEnd(c) ==
    /\ c \in clients
    /\ conn[c].reading
    /\ \E k \in {EndCallback(conn[c]), FailCallback(conn[c])} : Become(c, k)
    /\ UNCHANGED clients

OnWritten(c) ==
    /\ CanFinishWrite(c)
    /\ Become(c, WriteCallback(conn[c]))
    /\ UNCHANGED clients

OnTimeout(c) ==
    /\ c \in clients
    /\ conn[c].armed
    /\ Become(c, TimerCallback(conn[c]))
    /\ UNCHANGED clients

(* __on_close, _on_client_close and the destructor.                        *)
OnClose(c) ==
    /\ CanRelease(c)
    /\ Become(c, Freed(conn[c]))
    /\ clients' = clients \ {c}

----------------------------------------------------------------------------
(* The calls of the context.                                               *)
CtxWrite(c) ==
    /\ c \in clients
    /\ conn[c].queued_writes < MaxWrites
    /\ \E how \in Hows : Become(c, Write(conn[c], how))
    /\ UNCHANGED clients

CtxClose(c) ==
    /\ c \in clients
    /\ Become(c, Close(conn[c]))
    /\ UNCHANGED clients

CtxCrash(c) ==
    /\ c \in clients
    /\ Become(c, Crash(conn[c]))
    /\ UNCHANGED clients

CtxSetTimeout(c) ==
    /\ c \in clients
    /\ \E t \in BOOLEAN : Become(c, SetTimeout(conn[c], t))
    /\ UNCHANGED clients

CtxResetTimeout(c) ==
    /\ c \in clients
    /\ Become(c, ResetTimeout(conn[c]))
    /\ UNCHANGED clients

CtxListen(c) ==
    /\ c \in clients
    /\ Become(c, Listen(conn[c]))
    /\ UNCHANGED clients

CtxStopListening(c) ==
    /\ c \in clients
    /\ Become(c, StopListening(conn[c]))
    /\ UNCHANGED clients

Step(c) ==
    \/ OnAccept(c) \/ OnRecv(c) \/ OnRecvEnd(c)
    \/ OnWritten(c) \/ OnTimeout(c) \/ OnClose(c)
    \/ CtxWrite(c) \/ CtxClose(c) \/ CtxCrash(c)
    \/ CtxSetTimeout(c) \/ CtxResetTimeout(c)
    \/ CtxListen(c) \/ CtxStopListening(c)

Next == Running /\ \E c \in Clients : Step(c)

Spec == Init /\ [][Next]_vars

----------------------------------------------------------------------------
TypeOK == ConnTypeOK

(* queued_writes never misses a write libuv still owes a callback for,     *)
(* whatever mix of immediate, deferred and refused writes, closes and      *)
(* resets led here, so a close that does not wait has nothing to wait for; *)
(* until a read fails it counts exactly those writes, and a close is only  *)
(* ever queued behind one of them, so it cannot be forgotten               *)
(* (server.cpp:28-63, 106-135, 238-260).                                   *)
WritesAccounted ==
    \A c \in Clients :
        LET k == conn[c]
        IN  /\ k.queued_writes >= k.inflight
            /\ k.queued_close => k.queued_writes > 0
            /\ ~k.broken => k.queued_writes = k.inflight

(* The flag is_open() reads and the state of libuv's handle agree on every *)
(* live object, so a write never reaches a handle that was shut            *)
(* (server.cpp:234-236, 305-316).                                          *)
IsOpenAgrees ==
    \A c \in clients : IsOpen(conn[c]) <=> conn[c].handle = "open"

(* Once an object is closing, no new write is handed to libuv for it       *)
(* (server.cpp:311-313).                                                   *)
NoWriteAfterClose ==
    [][\A c \in Clients :
          conn[c].closing => conn'[c].inflight <= conn[c].inflight]_vars

=============================================================================
