----------------------------- MODULE SSLClient -----------------------------
(***************************************************************************)
(* The connection object of src/sources/server.cpp: one libuv TCP handle,  *)
(* one idle timer, a count of unfinished writes and the flags that decide  *)
(* when the handle is closed.  Each method is an operator from the record  *)
(* of one object to its next record, so that a callback which makes        *)
(* several calls is the composition of their operators.                    *)
(*                                                                         *)
(* A name in Clients stands for one object, from its construction to its   *)
(* deletion; an address used again is another name.  libuv is external:    *)
(* "handle", "reading", "broken" and "inflight" are its side of the object.*)
(***************************************************************************)
EXTENDS Naturals

CONSTANTS
    Clients,            \* the connection objects that may be created
    GarbageTimeout,     \* subset of BOOLEAN: is the uninitialised timeout_time
                        \* non-zero?  (server.hpp:46 has no initialiser)
    SIZE_MAX            \* the largest size_t

ASSUME ClientAssumption ==
    /\ GarbageTimeout \in SUBSET BOOLEAN
    /\ GarbageTimeout # {}
    /\ SIZE_MAX \in Nat \ {0}

VARIABLES
    clients,            \* SSLServer::clients, the objects that are alive
    conn                \* [Clients -> Conn]

connVars == <<clients, conn>>

(***************************************************************************)
(*   handle        the uv_tcp_t: not created, open, shut by uv_close or by *)
(*                 uv_tcp_close_reset, released after the close callback   *)
(*   reading       uv_read_start is in force                               *)
(*   broken        a read failed: libuv takes no more reads or writes      *)
(*   inflight      uv_write requests whose callback has not run            *)
(*   queued_writes, queued_close, closing    the fields of the class       *)
(*   timed         timeout_time # 0                                        *)
(*   armed         the uv_timer_t is active                                *)
(*   reclosed      uv_close was called on a handle already shut: libuv's   *)
(*                 assertion ends the process                              *)
(***************************************************************************)
Handles == {"none", "open", "closing", "resetting", "closed"}

Conn == [handle : Handles, reading : BOOLEAN, broken : BOOLEAN, inflight : Nat,
         queued_writes : Nat, queued_close : BOOLEAN, closing : BOOLEAN,
         timed : BOOLEAN, armed : BOOLEAN, reclosed : BOOLEAN]

NoConn == [handle |-> "none", reading |-> FALSE, broken |-> FALSE, inflight |-> 0,
           queued_writes |-> 0, queued_close |-> FALSE, closing |-> FALSE,
           timed |-> FALSE, armed |-> FALSE, reclosed |-> FALSE]

(***************************************************************************)
(* libuv.                                                                  *)
(***************************************************************************)
UvClose(k) ==
    IF k.handle = "open"
      THEN [k EXCEPT !.handle = "closing", !.reading = FALSE]
      ELSE [k EXCEPT !.reclosed = TRUE]

(* On a handle already shut the descriptor is gone, setsockopt fails and   *)
(* uv_tcp_close_reset returns without closing again.                       *)
UvCloseReset(k) ==
    IF k.handle = "open"
      THEN [k EXCEPT !.handle = "resetting", !.reading = FALSE]
      ELSE k

(***************************************************************************)
(* The methods of SSLClient.                                               *)
(***************************************************************************)
NewClient(t) == [NoConn EXCEPT !.handle = "open", !.timed = t]

(* slip: only the pointer is tested *)
IsOpenByPointer(k) == k.handle \notin {"none", "closed"}

IsOpen(k) == k.handle \notin {"none", "closed"} /\ ~k.closing

Listen(k) ==
    IF k.handle = "open" /\ ~k.broken THEN [k EXCEPT !.reading = TRUE] ELSE k

KeepListening(k) == k       \* slip: uv_read_stop is not called
StopListening(k) == [k EXCEPT !.reading = FALSE]

SetTimeout(k, t) == [k EXCEPT !.timed = t, !.armed = t]
StopTimeout(k) == [k EXCEPT !.armed = @ /\ ~k.timed]  \* slip: not restarted
ResetTimeout(k) == [k EXCEPT !.armed = k.timed \/ @]

(* slip: a close does not wait for the writes *)
CloseAtOnce(k) ==
    UvClose([k EXCEPT !.closing = TRUE, !.queued_close = FALSE, !.armed = FALSE])

Close(k) ==
    IF k.queued_writes > 0 /\ ~k.queued_close
      THEN [k EXCEPT !.queued_close = TRUE]
      ELSE UvClose([k EXCEPT !.closing = TRUE, !.queued_close = FALSE,
                             !.armed = FALSE])

(* slips: the timer is left running; the object is not marked; the queued  *)
(* close is not cancelled *)
CrashKeepsTimer(k) ==
    UvCloseReset([k EXCEPT !.queued_close = FALSE, !.closing = TRUE])
CrashUnmarked(k) ==
    UvCloseReset([k EXCEPT !.queued_close = FALSE, !.armed = FALSE])
CrashKeepsQueue(k) ==
    UvCloseReset([k EXCEPT !.closing = TRUE, !.armed = FALSE])

Crash(k) ==
    UvCloseReset([k EXCEPT !.queued_close = FALSE, !.closing = TRUE,
                           !.armed = FALSE])

(* --queued_writes on a size_t; the test for a negative count is dead.     *)
Decrement(n) == IF n = 0 THEN SIZE_MAX ELSE n - 1

(* slip: the queued close is forgotten *)
OnSendOnlyCounts(k) == [k EXCEPT !.queued_writes = Decrement(@)]

(* __on_send.  The context is the Manager, whose on_write is empty.        *)
OnSend(k) ==
    LET left == [k EXCEPT !.queued_writes = Decrement(@)]
    IN  IF left.queued_writes = 0 /\ left.queued_close THEN Close(left) ELSE left

(* _send: uv_try_write may take the data at once, and then the completion  *)
(* runs before _send returns; otherwise a uv_write is left in flight.  On  *)
(* a broken stream both fail at once: the result of uv_write is not looked *)
(* at, no callback will come, and the request stays counted.  (An error of *)
(* the peer that a write meets is reported by its callback.)               *)
Hows == {"sync", "async"}

(* slip: only a write left in flight is counted *)
SendCountsDeferred(k, how) ==
    IF how = "sync"
      THEN OnSend(ResetTimeout(k))
      ELSE [ResetTimeout(k) EXCEPT !.queued_writes = @ + 1, !.inflight = @ + 1]

Send(k, how) ==
    LET counted == [ResetTimeout(k) EXCEPT !.queued_writes = @ + 1]
    IN  IF k.broken THEN counted
        ELSE IF how = "sync" THEN OnSend(counted)
        ELSE [counted EXCEPT !.inflight = @ + 1]

(* write, down to __send: nothing leaves an object that is not open.       *)
Write(k, how) == IF IsOpen(k) THEN Send(k, how) ELSE k

(* __on_send called by libuv for one finished or cancelled uv_write.       *)
WriteCallback(k) == OnSend([k EXCEPT !.inflight = @ - 1])

(* __on_timeout; the timer does not repeat.                                *)
TimerCallback(k) == Crash([k EXCEPT !.armed = FALSE])

(* __on_recv with nread < 0.  libuv stops reading before it reports the end*)
(* of the stream or an error, and after an error the stream is broken.     *)
EndCallback(k) == Close([k EXCEPT !.reading = FALSE])
FailCallback(k) == EndCallback([k EXCEPT !.broken = TRUE])

(* __on_close and ~SSLClient: the handle is released, the timer closed.    *)
Freed(k) == [k EXCEPT !.handle = "closed", !.closing = TRUE, !.armed = FALSE]

(***************************************************************************)
(* Steps of one object.                                                    *)
(***************************************************************************)
Aborted == \E c \in Clients : conn[c].reclosed

Become(c, k) == conn' = [conn EXCEPT ![c] = k]

(* The callbacks of unfinished writes run before the close callback, in    *)
(* libuv's closing phase; here other events may come between them.         *)
CanFinishAnyWrite(c) == c \in clients   \* slip: no request is outstanding

CanFinishWrite(c) == c \in clients /\ conn[c].inflight > 0

CanRelease(c) ==
    /\ c \in clients
    /\ conn[c].handle \in {"closing", "resetting"}
    /\ conn[c].inflight = 0

ConnTypeOK ==
    /\ clients \in SUBSET Clients
    /\ conn \in [Clients -> Conn]

(***************************************************************************)
(* The mapping to Lifecycle.  A write libuv refused stays pending for ever.*)
(***************************************************************************)
Phase(k) ==
    CASE k.handle = "none"      -> "absent"
      [] k.handle = "open"      -> IF k.queued_close THEN "draining" ELSE "open"
      [] k.handle = "closing"   -> "closing"
      [] k.handle = "resetting" -> "cut"
      [] k.handle = "closed"    -> "gone"

Pending(k) == IF k.handle = "open" THEN k.queued_writes ELSE 0

Promise == INSTANCE Lifecycle WITH
    phase <- [c \in Clients |-> Phase(conn[c])],
    pending <- [c \in Clients |-> Pending(conn[c])]

(* A connection object behaves as Lifecycle says: one life, a close that   *)
(* waits for the writes made before it, nothing after the end.             *)
LifecycleSpec == Promise!Spec

=============================================================================
