-------------------------- MODULE GeminiServerProofs --------------------------
(***************************************************************************)
(* What holds of GeminiServer for any number of connections and contexts.  *)
(* The first part assumes nothing of the peer, the timers or the files.    *)
(***************************************************************************)
EXTENDS GeminiServer, SSLClientProofs

----------------------------------------------------------------------------
(* The calls of the callbacks, composed.                                   *)

LEMMA ReplySound ==
    ASSUME NEW k, NEW how \in Hows, Sound(k), Live(k)
    PROVE  Sound(Reply(k, how)) /\ Live(Reply(k, how)) /\ AStep(k, Reply(k, how))
<1> DEFINE w == Write(k, how)
<1>1. Sound(w) /\ Live(w) /\ Queues(k, w)
  BY WriteSound
<1>2. Reply(k, how) = Close(w)
  BY DEF Reply
<1> HIDE DEF w
<1>3. Sound(Close(w)) /\ Live(Close(w)) /\ Closes(w, Close(w))
  BY <1>1, CloseSound
<1> QED
  BY <1>1, <1>2, <1>3, QueuesThenCloses, PendingType

LEMMA TimeoutsSound ==
    ASSUME NEW k, Sound(k), k.handle = "open"
    PROVE  /\ Sound(AcceptTimeout(k)) /\ AcceptTimeout(k).handle = "open"
           /\ Sound(HandlerTimeout(k)) /\ HandlerTimeout(k).handle = "open"
           /\ Phase(AcceptTimeout(k)) = Phase(k)
           /\ Pending(AcceptTimeout(k)) = Pending(k)
           /\ Phase(HandlerTimeout(k)) = Phase(k)
           /\ Pending(HandlerTimeout(k)) = Pending(k)
  BY SetTimeoutSound DEF AcceptTimeout, HandlerTimeout, Live

LEMMA AcceptSound ==
    ASSUME NEW k, k = NoConn, NEW t \in BOOLEAN,
           NEW m, m = Listen(AcceptTimeout(NewClient(t)))
    PROVE  Sound(m) /\ Live(m) /\ AStep(k, m)
<1> DEFINE n == NewClient(t)
           a == AcceptTimeout(n)
<1>1. Sound(n) /\ n.handle = "open" /\ Phase(n) = "open" /\ Pending(n) = 0
  BY NewClientSound DEF Phase, Pending
<1>2. m = Listen(a)
  OBVIOUS
<1> HIDE DEF n
<1>3. Sound(a) /\ Live(a) /\ Phase(a) = "open" /\ Pending(a) = 0
  BY <1>1, TimeoutsSound DEF Live
<1> HIDE DEF a
<1>4. Sound(m) /\ Live(m) /\ Phase(m) = "open" /\ Pending(m) = 0
  BY <1>2, <1>3, ListenSound
<1>5. Phase(k) = "absent" /\ Pending(k) = 0
  BY DEF NoConn, Phase, Pending
<1> QED
  BY <1>4, <1>5 DEF AStep

(* The connection a dispatch hands to the handler.                         *)
LEMMA DispatchSound ==
    ASSUME NEW k, Sound(k), k.handle = "open"
    PROVE  LET l == HandlerTimeout(StopListening(k))
           IN  /\ Sound(l) /\ Live(l) /\ l.handle = "open"
               /\ Phase(l) = Phase(k) /\ Pending(l) = Pending(k)
<1> DEFINE s == StopListening(k)
<1>1. /\ Sound(s) /\ s.handle = "open"
      /\ Phase(s) = Phase(k) /\ Pending(s) = Pending(k)
  BY StopListeningSound DEF Live, StopListening, Sound, Conn
<1> HIDE DEF s
<1>2. LET l == HandlerTimeout(s)
      IN  /\ Sound(l) /\ Live(l) /\ l.handle = "open"
          /\ Phase(l) = Phase(k) /\ Pending(l) = Pending(k)
  BY <1>1, TimeoutsSound DEF Live
<1> QED
  BY <1>2 DEF s

(* A TLS error: an alert may be written before the reset.                  *)
LEMMA AlertSound ==
    ASSUME NEW k, Sound(k), Live(k),
           NEW l \in {k} \cup {Write(k, how) : how \in Hows}
    PROVE  Sound(Crash(l)) /\ Live(Crash(l)) /\ AStep(k, Crash(l))
<1>1. Sound(l) /\ Live(l) /\ Queues(k, l)
  <2>1. CASE l = k
    BY <2>1, PendingType DEF Queues
  <2>2. CASE l \in {Write(k, how) : how \in Hows}
    <3>1. PICK how \in Hows : l = Write(k, how)
      BY <2>2
    <3> QED
      BY <3>1, WriteSound
  <2> QED
    BY <2>1, <2>2
<1> QED
  BY <1>1, CrashSound, QueuesThenCrash

(* The header and the listing of a directory, then the close.              *)
LEMMA ListingSound ==
    ASSUME NEW k, Sound(k), Live(k), NEW h1 \in Hows, NEW h2 \in Hows
    PROVE  LET m == Close(Write(Write(k, h1), h2))
           IN  Sound(m) /\ Live(m) /\ AStep(k, m)
<1> DEFINE u == Write(k, h1)
           v == Write(u, h2)
           m == Close(v)
<1>1. Sound(u) /\ Live(u) /\ Queues(k, u)
  BY WriteSound
<1> HIDE DEF u
<1>2. Sound(v) /\ Live(v) /\ Queues(u, v)
  BY <1>1, WriteSound
<1> HIDE DEF v
<1>3. Sound(m) /\ Live(m) /\ Closes(v, m)
  BY <1>2, CloseSound
<1>4. AStep(k, m)
  BY <1>1, <1>2, <1>3, QueuesTransitive, QueuesThenCloses, PendingType
<1> QED
  BY <1>3, <1>4 DEF u, v

----------------------------------------------------------------------------
(* The inductive invariant: each object is Sound, the three sets that name *)
(* the live connections are one, and the read loop only runs on an open    *)
(* connection.                                                             *)
IInv ==
    /\ TypeOK
    /\ requests = clients
    /\ \A c \in Clients : Sound(conn[c])
    /\ \A c \in Clients : c \in clients <=> Live(conn[c])
    /\ \A c \in Clients : conn[c].handle = "none" => conn[c] = NoConn
    /\ \A c \in running : c \in clients /\ conn[c].handle = "open"

(* A step of connection c, which becomes m.                                *)
Moves(c, m) ==
    /\ conn' = [conn EXCEPT ![c] = m]
    /\ clients' = IF Live(m) THEN clients \cup {c} ELSE clients \ {c}
    /\ requests' = clients'
    /\ Sound(m)
    /\ m.handle # "none"
    /\ AStep(conn[c], m)
    /\ running' = {} \/ (running' \subseteq running \cup {c} /\ m.handle = "open")
    /\ req' \in [Clients -> Req]
    /\ ctx' \in [Contexts -> Ctx]

LEMMA InitInv == Init => IInv
<1> SUFFICES ASSUME Init PROVE IInv
  OBVIOUS
<1>1. NoConn \in Conn /\ Sound(NoConn) /\ ~Live(NoConn)
  BY DEF NoConn, Conn, Handles, Sound, Live
<1>2. NoReq \in Req /\ NoCtx \in Ctx
  BY DEF NoReq, Req, NoCtx, Ctx
<1> QED
  BY <1>1, <1>2 DEF Init, IInv, TypeOK, ConnTypeOK

LEMMA MovesInv ==
    ASSUME IInv, NEW c \in Clients, NEW m, Moves(c, m)
    PROVE  IInv'
<1>1. m \in Conn /\ Sound(m) /\ m.handle # "none"
  BY DEF Moves, Sound
<1>2. /\ conn' \in [Clients -> Conn]
      /\ \A d \in Clients : conn'[d] = IF d = c THEN m ELSE conn[d]
  BY <1>1 DEF Moves, IInv, TypeOK, ConnTypeOK
<1>3. \A d \in Clients : d \in clients' <=> Live(conn'[d])
  BY <1>2 DEF Moves, IInv
<1>4. clients' \in SUBSET Clients /\ running' \in SUBSET Clients
  BY DEF Moves, IInv, TypeOK, ConnTypeOK
<1>5. TypeOK'
  BY <1>2, <1>4 DEF Moves, TypeOK, ConnTypeOK
<1>6. \A d \in running' : d \in clients' /\ conn'[d].handle = "open"
  BY <1>2, <1>3, <1>4 DEF Moves, IInv, Live
<1> QED
  BY <1>1, <1>2, <1>3, <1>5, <1>6 DEF Moves, IInv

----------------------------------------------------------------------------
(* The steps.                                                              *)

LEMMA ReadTypes ==
    ASSUME IInv, NEW c \in Clients, req[c].rest \/ req[c].inbox # <<>>
    PROVE  /\ req[c].inbox # <<>> => Consumed(c) \in Req
           /\ AfterRead(c) \in Req
           /\ \A route \in AllRoutes : Dispatched(c, route) \in Req
<1>1. req[c] \in Req
  BY DEF IInv, TypeOK
<1>2. req[c].inbox # <<>> => Consumed(c) \in Req
  <2> SUFFICES ASSUME req[c].inbox # <<>> PROVE Consumed(c) \in Req
    OBVIOUS
  <2>1. Tail(req[c].inbox) \in Seq(Records)
    BY <1>1 DEF Req
  <2> QED
    BY <1>1, <2>1 DEF Consumed, Req
<1>3. Taken(c) \in Req
  <2> DEFINE n == NextIs(c, "long")
  <2>1. n \in BOOLEAN
    BY DEF NextIs
  <2> HIDE DEF n
  <2>2. CASE req[c].rest
    BY <1>1, <2>2 DEF Taken, Req
  <2>3. CASE ~req[c].rest
    <3>1. Taken(c) \in {[Consumed(c) EXCEPT !.tls = "ended"],
                        [Consumed(c) EXCEPT !.rest = n]}
      BY <2>3 DEF Taken, n
    <3> QED
      BY <1>2, <2>1, <2>3, <3>1 DEF Req
  <2> QED
    BY <2>2, <2>3
<1>4. AfterRead(c) \in Req
  <2> DEFINE n == Pieces(c)
             t == Taken(c)
  <2>1. n \in Nat
    BY ServerAssumption DEF Pieces
  <2> HIDE DEF n, t
  <2>2. t \in Req /\ t.length + n \in Nat
    BY <1>3, <2>1 DEF Req, t
  <2>3. Longer(t, n) \in Req
    BY <2>2 DEF Longer, Req
  <2> QED
    BY <2>3 DEF AfterRead, n, t
<1>5. \A route \in AllRoutes : Dispatched(c, route) \in Req
  <2> TAKE route \in AllRoutes
  <2> DEFINE a == AfterRead(c)
  <2>1. a \in Req /\ a.handled + 1 \in Nat /\ route \in AllRoutes \cup {"none"}
    BY <1>4 DEF Req
  <2> HIDE DEF a
  <2>2. [a EXCEPT !.route = route, !.handled = @ + 1] \in Req
    BY <2>1 DEF Req
  <2> QED
    BY <2>2 DEF Dispatched, a
<1> QED
  BY <1>2, <1>4, <1>5

LEMMA RoundMoves ==
    ASSUME IInv, NEW c \in running, NEW k, NEW r, EndRound(c, k, r),
           Sound(k), Live(k), AStep(conn[c], k), r \in Req,
           ctx' \in [Contexts -> Ctx]
    PROVE  Moves(c, k)
<1>1. c \in clients /\ req' \in [Clients -> Req]
  BY DEF IInv, TypeOK, ConnTypeOK, EndRound
<1>2. running' = {} \/ (running' = running /\ IsOpen(k))
  BY DEF EndRound, ReadsOn
<1>3. IsOpen(k) => k.handle = "open"
  BY DEF IsOpen, Sound, Live
<1>4. k.handle # "none"
  BY DEF Live
<1> QED
  BY <1>1, <1>2, <1>3, <1>4 DEF Moves, EndRound, Become, IInv

LEMMA OnReadMoves ==
    ASSUME IInv, NEW c \in Clients, OnRead(c)
    PROVE  \E m : Moves(c, m)
<1> DEFINE k == conn[c]
<1>1. /\ c \in running /\ Sound(k) /\ Live(k) /\ k.handle = "open"
      /\ req[c] \in Req /\ ctx \in [Contexts -> Ctx]
  BY DEF OnRead, IInv, TypeOK, ConnTypeOK
<1>2. CASE ReadNothing(c)
  BY <1>1, <1>2, RoundMoves DEF ReadNothing, AStep
<1>3. CASE ReadHello(c)
  <2>1. PICK how \in Hows :
           EndRound(c, Write(k, how), [Consumed(c) EXCEPT !.tls = "up"])
    BY <1>3 DEF ReadHello
  <2>2. Consumed(c) \in Req
    BY <1>3, ReadTypes DEF ReadHello, NextIs
  <2>3. [Consumed(c) EXCEPT !.tls = "up"] \in Req
    BY <2>2 DEF Req
  <2>4. /\ Sound(Write(k, how)) /\ Live(Write(k, how))
        /\ AStep(k, Write(k, how))
    BY <1>1, WriteSound, QueuesIsAStep
  <2>5. ctx' \in [Contexts -> Ctx]
    BY <1>1, <1>3 DEF ReadHello
  <2> QED
    BY <1>1, <2>1, <2>3, <2>4, <2>5, RoundMoves
<1>4. CASE ReadError(c)
  <2>1. PICK l \in {k} \cup {Write(k, how) : how \in Hows} :
           EndRound(c, Crash(l), req[c])
    BY <1>4 DEF ReadError
  <2>2. Sound(Crash(l)) /\ Live(Crash(l)) /\ AStep(k, Crash(l))
    BY <1>1, AlertSound
  <2>3. ctx' \in [Contexts -> Ctx]
    BY <1>1, <1>4 DEF ReadError
  <2> QED
    BY <1>1, <2>1, <2>2, <2>3, RoundMoves
<1>5. ASSUME DataRead(c)
      PROVE  /\ AfterRead(c) \in Req
             /\ \A route \in AllRoutes : Dispatched(c, route) \in Req
  BY <1>5, ReadTypes DEF DataRead, Reads, NextIs
<1>6. CASE ReadTooLong(c)
  <2>1. Sound(Crash(k)) /\ Live(Crash(k)) /\ AStep(k, Crash(k))
    BY <1>1, CrashSound
  <2> QED
    BY <1>1, <1>5, <1>6, <2>1, RoundMoves DEF ReadTooLong
<1>7. CASE ReadPart(c)
  BY <1>1, <1>5, <1>7, RoundMoves DEF ReadPart, AStep
<1>8. CASE Reject(c)
  <2>1. PICK route \in {"unparsable", "nohandlers"} :
           /\ CanDispatch(c, route)
           /\ EndRound(c, Crash(StopListening(k)), Dispatched(c, route))
           /\ UNCHANGED ctx
    BY <1>8 DEF Reject
  <2>2. Dispatched(c, route) \in Req
    BY <1>5, <2>1 DEF CanDispatch, AllRoutes
  <2>3. /\ Sound(Crash(StopListening(k))) /\ Live(Crash(StopListening(k)))
        /\ AStep(k, Crash(StopListening(k)))
    BY <1>1, StopListeningSound, CrashSound, AStepAfterSame
  <2> QED
    BY <1>1, <2>1, <2>2, <2>3, RoundMoves
<1> DEFINE s == StopListening(k)
           h == HandlerTimeout(s)
<1>9. Sound(s) /\ Live(s) /\ Phase(s) = Phase(k) /\ Pending(s) = Pending(k)
  BY <1>1, StopListeningSound
<1>10. Sound(h) /\ Live(h) /\ Phase(h) = Phase(k) /\ Pending(h) = Pending(k)
  BY <1>1, DispatchSound
<1> HIDE DEF s, h
<1>11. CASE RefuseUnmatched(c)
  <2>1. PICK how \in Hows : EndRound(c, Reply(s, how), Dispatched(c, "nomatch"))
    BY <1>11 DEF RefuseUnmatched, s
  <2>2. Dispatched(c, "nomatch") \in Req
    BY <1>5, <1>11 DEF RefuseUnmatched, CanDispatch, AllRoutes
  <2>3. Sound(Reply(s, how)) /\ Live(Reply(s, how)) /\ AStep(k, Reply(s, how))
    BY <1>9, ReplySound, AStepAfterSame
  <2>4. ctx' \in [Contexts -> Ctx]
    BY <1>1, <1>11 DEF RefuseUnmatched
  <2> QED
    BY <1>1, <2>1, <2>2, <2>3, <2>4, RoundMoves
<1>12. CASE HandleAtOnce(c)
  <2>1. PICK route \in {"redirect", "illegal"}, how \in Hows :
           /\ CanDispatch(c, route)
           /\ EndRound(c, Reply(h, how), Dispatched(c, route))
           /\ UNCHANGED ctx
    BY <1>12 DEF HandleAtOnce, h, s
  <2>2. Dispatched(c, route) \in Req
    BY <1>5, <2>1 DEF CanDispatch, AllRoutes
  <2>3. Sound(Reply(h, how)) /\ Live(Reply(h, how)) /\ AStep(k, Reply(h, how))
    BY <1>10, ReplySound, AStepAfterSame
  <2> QED
    BY <1>1, <2>1, <2>2, <2>3, RoundMoves
<1>13. CASE HandleFile(c)
  <2>1. EndRound(c, h, Dispatched(c, "serve"))
    BY <1>13 DEF HandleFile, h, s
  <2>2. Dispatched(c, "serve") \in Req
    BY <1>5, <1>13 DEF HandleFile, CanDispatch, AllRoutes
  <2>3. ctx' \in [Contexts -> Ctx]
    <3>1. PICK x \in Contexts :
             ctx' = [ctx EXCEPT ![x] = [pc |-> "stat", client |-> c, offset |-> 0]]
      BY <1>13 DEF HandleFile
    <3>2. [pc |-> "stat", client |-> c, offset |-> 0] \in Ctx
      BY DEF Ctx, Stages
    <3> QED
      BY <1>1, <3>1, <3>2
  <2>4. AStep(k, h)
    BY <1>10 DEF AStep
  <2> QED
    BY <1>1, <1>10, <2>1, <2>2, <2>3, <2>4, RoundMoves
<1> QED
  BY <1>2, <1>3, <1>4, <1>6, <1>7, <1>8, <1>11, <1>12, <1>13 DEF OnRead

(* A step in which a live connection stays alive, outside the read loop.   *)
LEMMA LiveMoves ==
    ASSUME IInv, NEW c \in clients, NEW m, Become(c, m),
           UNCHANGED <<clients, requests, running>>, Idle,
           req' \in [Clients -> Req], ctx' \in [Contexts -> Ctx],
           Sound(m), Live(m), AStep(conn[c], m)
    PROVE  Moves(c, m)
<1>1. m.handle # "none" /\ running' = {}
  BY DEF Live, Idle
<1> QED
  BY <1>1 DEF Moves, Become, IInv

LEMMA ClientStepMoves ==
    ASSUME IInv, NEW c \in Clients, ClientStep(c)
    PROVE  \E m : Moves(c, m)
<1> DEFINE k == conn[c]
<1>1. /\ Sound(k) /\ (c \in clients <=> Live(k)) /\ clients \in SUBSET Clients
      /\ (k.handle = "none" => k = NoConn) /\ requests = clients
      /\ req \in [Clients -> Req] /\ ctx \in [Contexts -> Ctx]
  BY DEF IInv, TypeOK, ConnTypeOK
<1>2. CASE OnAccept(c)
  <2>1. PICK t \in GarbageTimeout : Become(c, Listen(AcceptTimeout(NewClient(t))))
    BY <1>2 DEF OnAccept
  <2> DEFINE m == Listen(AcceptTimeout(NewClient(t)))
  <2>2. Sound(m) /\ Live(m) /\ AStep(k, m)
    BY <1>1, <1>2, AcceptSound, ClientAssumption DEF OnAccept
  <2>3. Become(c, m)
    BY <2>1
  <2> HIDE DEF m
  <2>4. /\ clients' = clients \cup {c} /\ requests' = clients' /\ running' = {}
        /\ req' \in [Clients -> Req] /\ ctx' \in [Contexts -> Ctx]
    BY <1>1, <1>2 DEF OnAccept, Idle
  <2>5. m.handle # "none"
    BY <2>2 DEF Live
  <2> QED
    BY <2>2, <2>3, <2>4, <2>5 DEF Moves, Become
<1>3. CASE OnRecv(c)
  <2> DEFINE m == ResetTimeout(k)
  <2>1. k.handle = "open"
    BY <1>1, <1>3 DEF OnRecv, Sound
  <2>2. Sound(m) /\ Live(m) /\ m.handle = "open" /\ AStep(k, m)
    BY <1>1, <2>1, ResetTimeoutSound DEF AStep, Live
  <2>3. req' \in [Clients -> Req]
    <3>1. PICK g \in Segments : req' = [req EXCEPT ![c].inbox = @ \o g]
      BY <1>3 DEF OnRecv
    <3>2. req[c].inbox \o g \in Seq(Records) /\ req[c] \in Req
      BY <1>1, ServerAssumption DEF Req
    <3>3. [req[c] EXCEPT !.inbox = req[c].inbox \o g] \in Req
      BY <3>2 DEF Req
    <3> QED
      BY <1>1, <3>1, <3>3
  <2>4. /\ Become(c, m) /\ c \in clients /\ running' = {c}
        /\ UNCHANGED <<clients, requests, ctx>>
    BY <1>3 DEF OnRecv
  <2> HIDE DEF m
  <2> QED
    BY <1>1, <2>2, <2>3, <2>4 DEF Moves, Become
<1>4. CASE OnRecvEnd(c)
  <2>1. PICK m \in {EndCallback(k), FailCallback(k)} : Become(c, m)
    BY <1>4 DEF OnRecvEnd
  <2>2. Sound(m) /\ Live(m) /\ AStep(k, m)
    BY <1>1, <1>4, EndCallbackSound, FailCallbackSound DEF OnRecvEnd
  <2> QED
    BY <1>1, <1>4, <2>1, <2>2, LiveMoves DEF OnRecvEnd
<1>5. CASE OnRead(c)
  BY <1>5, OnReadMoves
<1>6. CASE OnWritten(c)
  <2>1. c \in clients /\ k.inflight > 0
    BY <1>6 DEF OnWritten, CanFinishWrite
  <2>2. /\ Sound(WriteCallback(k)) /\ Live(WriteCallback(k))
        /\ AStep(k, WriteCallback(k))
    BY <1>1, <2>1, WriteCallbackSound
  <2> QED
    BY <1>1, <1>6, <2>1, <2>2, LiveMoves DEF OnWritten
<1>7. CASE OnTimeout(c)
  <2>1. /\ Sound(TimerCallback(k)) /\ Live(TimerCallback(k))
        /\ AStep(k, TimerCallback(k))
    BY <1>1, <1>7, TimerCallbackSound DEF OnTimeout
  <2> QED
    BY <1>1, <1>7, <2>1, LiveMoves DEF OnTimeout
<1>8. CASE OnClose(c)
  <2>1. /\ k.handle \in {"closing", "resetting"} /\ k.inflight = 0
        /\ Become(c, Freed(k)) /\ clients' = clients \ {c}
        /\ requests' = requests \ {c} /\ running' = {}
        /\ UNCHANGED <<req, ctx>>
    BY <1>8 DEF OnClose, CanRelease, RequestErased, Idle
  <2>2. Sound(Freed(k)) /\ ~Live(Freed(k)) /\ AStep(k, Freed(k))
    BY <1>1, <2>1, FreedSound
  <2>3. Freed(k).handle # "none"
    BY <1>1 DEF Freed, Sound, Conn
  <2> QED
    BY <1>1, <2>1, <2>2, <2>3 DEF Moves, Become
<1> QED
  BY <1>2, <1>3, <1>4, <1>5, <1>6, <1>7, <1>8 DEF ClientStep

----------------------------------------------------------------------------
(* The file system callbacks.                                              *)

LEMMA CtxTypes ==
    ASSUME IInv, NEW x \in Contexts
    PROVE  /\ \A pc \in Stages \cup {"held", "free"} :
                Goto(x, pc) => ctx' \in [Contexts -> Ctx]
           /\ Free(x) => ctx' \in [Contexts -> Ctx]
<1>1. ctx \in [Contexts -> Ctx] /\ NoCtx \in Ctx
  BY DEF IInv, TypeOK, NoCtx, Ctx
<1>2. \A pc \in Stages \cup {"held", "free"} : [ctx[x] EXCEPT !.pc = pc] \in Ctx
  BY <1>1 DEF Ctx
<1> QED
  BY <1>1, <1>2 DEF Goto, Free

(* What a callback does to the connection: nothing, or one of four calls.  *)
FileMove(k, m) ==
    \/ m = k
    \/ \E how \in Hows : m = Reply(k, how) \/ m = Write(k, how)
    \/ m = Close(k)
    \/ \E h1, h2 \in Hows : m = Close(Write(Write(k, h1), h2))

LEMMA FileMoveSound ==
    ASSUME NEW k, NEW m, Sound(k), Live(k), FileMove(k, m)
    PROVE  Sound(m) /\ Live(m) /\ AStep(k, m)
<1>1. CASE m = k
  BY <1>1 DEF AStep
<1>2. CASE \E how \in Hows : m = Reply(k, how) \/ m = Write(k, how)
  BY <1>2, ReplySound, WriteSound, QueuesIsAStep
<1>3. CASE m = Close(k)
  BY <1>3, CloseSound, ClosesIsAStep
<1>4. CASE \E h1, h2 \in Hows : m = Close(Write(Write(k, h1), h2))
  BY <1>4, ListingSound
<1> QED
  BY <1>1, <1>2, <1>3, <1>4 DEF FileMove

LEMMA CallbackMoves ==
    ASSUME IInv, NEW x \in Contexts, NEW stage, Callback(x, stage), stage # "free",
           NEW m, FileMove(conn[ctx[x].client], m), Become(ctx[x].client, m),
           req' \in [Clients -> Req], ctx' \in [Contexts -> Ctx]
    PROVE  ctx[x].client \in Clients /\ Moves(ctx[x].client, m)
<1> DEFINE c == ctx[x].client
<1>1. /\ c \in clients /\ c \in Clients /\ Idle
      /\ UNCHANGED <<clients, requests, running>>
      /\ Sound(conn[c]) /\ Live(conn[c])
  BY DEF Callback, IInv, TypeOK, ConnTypeOK
<1> HIDE DEF c
<1>2. FileMove(conn[c], m) /\ Become(c, m)
  BY DEF c
<1>3. Sound(m) /\ Live(m) /\ AStep(conn[c], m)
  BY <1>1, <1>2, FileMoveSound
<1>4. Moves(c, m)
  BY <1>1, <1>2, <1>3, LiveMoves
<1> QED
  BY <1>1, <1>4 DEF c

LEMMA FileStepMoves ==
    ASSUME IInv, NEW x \in Contexts, FileStep(x)
    PROVE  \/ \E c \in Clients : \E m : Moves(c, m)
           \/ IInv' /\ UNCHANGED <<clients, conn>>
<1> DEFINE c == ctx[x].client
           k == conn[c]
<1>1. /\ req \in [Clients -> Req] /\ ctx \in [Contexts -> Ctx] /\ ctx[x] \in Ctx
      /\ conn \in [Clients -> Conn]
  BY DEF IInv, TypeOK, ConnTypeOK
<1>2. ASSUME NEW stage, Callback(x, stage), stage # "free",
             NEW m, FileMove(k, m), Become(c, m),
             req' \in [Clients -> Req], ctx' \in [Contexts -> Ctx]
      PROVE  \E d \in Clients : \E n : Moves(d, n)
  BY <1>2, CallbackMoves
<1>3. ASSUME Answer(x)
      PROVE  \E m : FileMove(k, m) /\ Become(c, m) /\ req' = req
  BY <1>3 DEF Answer, FileMove
<1>4. ASSUME UNCHANGED conn, NEW stage, Callback(x, stage)
      PROVE  FileMove(k, k) /\ Become(c, k)
  BY <1>1, <1>4 DEF FileMove, Become, Callback
<1>5. ASSUME NEW pc \in Stages \cup {"held", "free"}, Goto(x, pc)
      PROVE  ctx' \in [Contexts -> Ctx]
  BY <1>5, CtxTypes
<1>6. CASE HandleOnStat(x)
  <2>1. CASE Answer(x) /\ Goto(x, "held")
    <3>1. ctx' \in [Contexts -> Ctx]
      BY <1>5, <2>1
    <3> QED
      BY <1>1, <1>2, <1>3, <1>6, <2>1, <3>1 DEF HandleOnStat
  <2>2. CASE \E next \in {"scan", "open"} : Goto(x, next) /\ UNCHANGED <<conn, req>>
    <3>1. ctx' \in [Contexts -> Ctx]
      BY <1>5, <2>2 DEF Stages
    <3> QED
      BY <1>1, <1>2, <1>4, <1>6, <2>2, <3>1 DEF HandleOnStat
  <2> QED
    BY <1>6, <2>1, <2>2 DEF HandleOnStat
<1>7. CASE FileOnOpen(x)
  <2>1. CASE Answer(x) /\ Goto(x, "held")
    <3>1. ctx' \in [Contexts -> Ctx]
      BY <1>5, <2>1
    <3> QED
      BY <1>1, <1>2, <1>3, <1>7, <2>1, <3>1 DEF FileOnOpen
  <2>2. CASE /\ \E how \in Hows : Become(c, Write(k, how))
             /\ ctx' = [ctx EXCEPT ![x].pc = "read", ![x].offset = 0]
             /\ UNCHANGED req
    <3>1. ctx' \in [Contexts -> Ctx]
      BY <1>1, <2>2 DEF Ctx, Stages
    <3>2. PICK how \in Hows : Become(c, Write(k, how))
      BY <2>2
    <3>3. FileMove(k, Write(k, how))
      BY DEF FileMove
    <3> QED
      BY <1>1, <1>2, <1>7, <2>2, <3>1, <3>2, <3>3 DEF FileOnOpen
  <2> QED
    BY <1>7, <2>1, <2>2 DEF FileOnOpen
<1>8. CASE FileOnRead(x)
  <2>1. CASE Become(c, Close(k)) /\ Goto(x, "close")
    <3>1. ctx' \in [Contexts -> Ctx]
      BY <1>5, <2>1 DEF Stages
    <3>2. FileMove(k, Close(k))
      BY DEF FileMove
    <3> QED
      BY <1>1, <1>2, <1>8, <2>1, <3>1, <3>2 DEF FileOnRead
  <2>2. CASE /\ \E how \in Hows : Become(c, Write(k, how))
             /\ ctx' = [ctx EXCEPT ![x].offset = @ + 1]
    <3>1. ctx' \in [Contexts -> Ctx]
      <4>1. [ctx[x] EXCEPT !.offset = @ + 1] \in Ctx
        BY <1>1 DEF Ctx
      <4> QED
        BY <1>1, <2>2, <4>1
    <3>2. PICK how \in Hows : Become(c, Write(k, how))
      BY <2>2
    <3>3. FileMove(k, Write(k, how))
      BY DEF FileMove
    <3> QED
      BY <1>1, <1>2, <1>8, <2>2, <3>1, <3>2, <3>3 DEF FileOnRead
  <2> QED
    BY <1>8, <2>1, <2>2 DEF FileOnRead
<1>9. CASE FileOnClose(x)
  <2>1. ctx' \in [Contexts -> Ctx] /\ UNCHANGED <<clients, conn, requests, req, running>>
    BY <1>5, <1>9 DEF FileOnClose
  <2> QED
    BY <2>1 DEF IInv, TypeOK, ConnTypeOK
<1>10. CASE DirOnScan(x)
  <2>1. CASE Answer(x) /\ Free(x)
    <3>1. ctx' \in [Contexts -> Ctx]
      BY <2>1, CtxTypes
    <3> QED
      BY <1>1, <1>2, <1>3, <1>10, <2>1, <3>1 DEF DirOnScan
  <2>2. CASE Goto(x, "open") /\ UNCHANGED <<conn, req>>
    <3>1. ctx' \in [Contexts -> Ctx]
      BY <1>5, <2>2 DEF Stages
    <3> QED
      BY <1>1, <1>2, <1>4, <1>10, <2>2, <3>1 DEF DirOnScan
  <2>3. CASE \E n \in 1..MaxListing, header, listing \in Hows :
                /\ Become(c, Close(Write(Write(k, header), listing)))
                /\ req' = [req EXCEPT ![c].buffer = @ + Kept(n)]
                /\ Free(x)
    <3>1. PICK n \in 1..MaxListing, header \in Hows, listing \in Hows :
                /\ Become(c, Close(Write(Write(k, header), listing)))
                /\ req' = [req EXCEPT ![c].buffer = @ + Kept(n)]
                /\ Free(x)
      BY <2>3
    <3>2. ctx' \in [Contexts -> Ctx]
      BY <3>1, CtxTypes
    <3>3. Kept(n) \in Nat
      BY ServerAssumption DEF Kept
    <3>4. c \in Clients
      BY <1>10 DEF DirOnScan, Callback, IInv, TypeOK, ConnTypeOK
    <3>5. req' \in [Clients -> Req]
      <4>0. req[c] \in Req
        BY <1>1, <3>4
      <4>1. [req[c] EXCEPT !.buffer = @ + Kept(n)] \in Req
        <5> DEFINE r == req[c]
                   b == r.buffer + Kept(n)
        <5>1. r \in Req
          BY <4>0
        <5>2. b \in Nat
          BY <3>3, <5>1 DEF Req
        <5> HIDE DEF r, b
        <5>3. [r EXCEPT !.buffer = b] \in Req
          BY <5>1, <5>2 DEF Req
        <5> QED
          BY <5>3 DEF r, b
      <4> QED
        BY <1>1, <3>1, <4>1
    <3>6. FileMove(k, Close(Write(Write(k, header), listing)))
      BY DEF FileMove
    <3> QED
      BY <1>2, <1>10, <3>1, <3>2, <3>5, <3>6 DEF DirOnScan
  <2> QED
    BY <1>10, <2>1, <2>2, <2>3 DEF DirOnScan
<1> QED
  BY <1>6, <1>7, <1>8, <1>9, <1>10 DEF FileStep

(* Every step is a move of one connection, or leaves them all alone.       *)
LEMMA NextMoves ==
    ASSUME IInv, [Next]_vars
    PROVE  \/ \E c \in Clients : \E m : Moves(c, m)
           \/ IInv' /\ UNCHANGED <<clients, conn>>
<1>1. CASE UNCHANGED vars
  BY <1>1 DEF vars, IInv, TypeOK, ConnTypeOK
<1>2. CASE Next
  BY <1>2, ClientStepMoves, FileStepMoves DEF Next
<1> QED
  BY <1>1, <1>2

LEMMA SpecInv == Spec => []IInv
<1>1. IInv /\ [Next]_vars => IInv'
  BY NextMoves, MovesInv
<1> QED
  BY <1>1, InitInv, PTL DEF Spec

(* Every reachable value of the variables has its type.                    *)
THEOREM TypeCorrect == Spec => []TypeOK
<1>1. IInv => TypeOK
  BY DEF IInv
<1> QED
  BY <1>1, SpecInv, PTL

(* The keys of Manager::requests are the live connections.                 *)
THEOREM RequestsMatchClients == Spec => []RequestsAreClients
<1>1. IInv => RequestsAreClients
  BY DEF IInv, RequestsAreClients
<1> QED
  BY <1>1, SpecInv, PTL

(* The connections of the whole server behave as Lifecycle says, whatever  *)
(* the peers send, the timers do and the files hold.                       *)
THEOREM KeepsPromise == Spec => LifecycleSpec
<1>1. Init => Promise!Init
  BY DEF Init, Promise!Init, NoConn, Phase, Pending
<1>2. IInv /\ [Next]_vars => [Promise!Next]_(Promise!vars)
  <2> SUFFICES ASSUME IInv, [Next]_vars PROVE [Promise!Next]_(Promise!vars)
    OBVIOUS
  <2>1. CASE \E c \in Clients : \E m : Moves(c, m)
    BY <2>1, AStepIsPromised DEF Moves, IInv, TypeOK, ConnTypeOK
  <2>2. CASE UNCHANGED <<clients, conn>>
    BY <2>2 DEF Promise!vars
  <2> QED
    BY <2>1, <2>2, NextMoves
<1> QED
  BY <1>1, <1>2, SpecInv, PTL DEF Spec, LifecycleSpec, Promise!Spec

----------------------------------------------------------------------------
(***************************************************************************)
(* No connection is forgotten.  An open one that nobody reads has a close  *)
(* queued behind a write, or a file system request that will answer it;    *)
(* with timeouts built in its timer runs.                                  *)
(***************************************************************************)
(* Context x has work pending whose callback uses connection c.            *)
Serves(x, c) == ctx[x].pc \in NeedsClient /\ ctx[x].client = c

Watched(k) == k.handle = "open" => k.timed /\ k.armed

Attended(c) ==
    conn[c].handle = "open" /\ ~conn[c].reading =>
        conn[c].queued_close \/ \E x \in Contexts : Serves(x, c)

AInv ==
    /\ IInv
    /\ \A c \in Clients : Attended(c)
    /\ TIMEOUTS => \A c \in Clients : Watched(conn[c])

(* What every call but StopListening keeps true: who was read, or had a    *)
(* close queued, is read, has a close queued or is shut.                   *)
Stays(k, m) ==
    /\ Watched(k) => Watched(m)
    /\ m.handle = "open" /\ ~m.reading =>
          m.queued_close \/ (k.handle = "open" /\ ~k.reading /\ ~k.queued_close)

(* ... and what the calls that end a connection make true.                 *)
Ends(m) == m.handle = "open" => m.queued_close

LEMMA EndsStay ==
    ASSUME NEW k, NEW m, Watched(k) => Watched(m), Ends(m)
    PROVE  Stays(k, m)
BY DEF Ends, Stays

LEMMA CloseEnds ==
    ASSUME NEW k \in Conn
    PROVE  LET m == Close(k)
           IN  Ends(m) /\ (Watched(k) => Watched(m))
<1> DEFINE m == Close(k)
           d == [k EXCEPT !.closing = TRUE, !.queued_close = FALSE, !.armed = FALSE]
<1>1. CASE k.queued_writes > 0 /\ ~k.queued_close
  <2>1. m = [k EXCEPT !.queued_close = TRUE]
    BY <1>1 DEF Close
  <2> HIDE DEF m
  <2>2. /\ m.queued_close /\ m.handle = k.handle
        /\ m.timed = k.timed /\ m.armed = k.armed
    BY <2>1 DEF Conn
  <2> QED BY <2>2 DEF Ends, Watched, m
<1>2. CASE ~(k.queued_writes > 0 /\ ~k.queued_close)
  <2>1. m = UvClose(d)
    BY <1>2 DEF Close
  <2>2. d \in Conn
    BY DEF Conn
  <2> HIDE DEF m, d
  <2>3. m.handle # "open"
    BY <2>1, <2>2 DEF UvClose, Conn, Handles
  <2> QED BY <2>3 DEF Ends, Watched, m
<1> QED BY <1>1, <1>2

LEMMA CrashEnds ==
    ASSUME NEW k \in Conn
    PROVE  LET m == Crash(k) IN Ends(m) /\ Watched(m)
<1> DEFINE d == [k EXCEPT !.queued_close = FALSE, !.closing = TRUE, !.armed = FALSE]
           m == Crash(k)
<1>1. d \in Conn /\ m = UvCloseReset(d)
  BY DEF Conn, Crash
<1> HIDE DEF d, m
<1>2. m.handle # "open"
  BY <1>1 DEF UvCloseReset, Conn, Handles
<1> QED BY <1>2 DEF Ends, Watched, m

LEMMA OnSendStays ==
    ASSUME NEW k \in Conn
    PROVE  Stays(k, OnSend(k))
<1> DEFINE d == Decrement(k.queued_writes)
           l == [k EXCEPT !.queued_writes = d]
           m == OnSend(k)
<1>1. d \in Nat
  BY ClientAssumption DEF Decrement, Conn
<1>2. m = IF l.queued_writes = 0 /\ l.queued_close THEN Close(l) ELSE l
  BY DEF OnSend
<1> HIDE DEF d
<1>3. /\ l \in Conn /\ l.handle = k.handle /\ l.reading = k.reading
      /\ l.queued_close = k.queued_close /\ l.timed = k.timed /\ l.armed = k.armed
  BY <1>1 DEF Conn
<1> HIDE DEF l, m
<1>4. CASE m = Close(l)
  <2>1. Ends(m) /\ (Watched(l) => Watched(m))
    BY <1>3, <1>4, CloseEnds
  <2> QED BY <1>3, <2>1 DEF m, Ends, Stays, Watched
<1>5. CASE m = l
  BY <1>3, <1>5 DEF m, Stays, Watched
<1> QED BY <1>2, <1>4, <1>5

(* The objects that differ from k in the fields of its writes only, or     *)
(* whose timer has been started again.                                     *)
LEMMA SameStays ==
    ASSUME NEW k, NEW l, l.handle = k.handle, l.reading = k.reading,
           l.queued_close = k.queued_close, l.timed = k.timed,
           k.armed => l.armed
    PROVE  /\ Stays(k, l)
           /\ \A m : Stays(l, m) => Stays(k, m)
BY DEF Stays, Watched

LEMMA ResetTimeoutStays ==
    ASSUME NEW k \in Conn
    PROVE  ResetTimeout(k) \in Conn /\ Stays(k, ResetTimeout(k))
<1> DEFINE l == ResetTimeout(k)
<1>1. /\ l \in Conn /\ l.handle = k.handle /\ l.reading = k.reading
      /\ l.queued_close = k.queued_close /\ l.timed = k.timed
      /\ k.armed => l.armed
  BY DEF ResetTimeout, Conn
<1> HIDE DEF l
<1>2. Stays(k, l)
  BY <1>1, SameStays
<1> QED BY <1>1, <1>2 DEF l

LEMMA WriteStays ==
    ASSUME NEW k \in Conn, NEW how \in Hows
    PROVE  Stays(k, Write(k, how))
<1> DEFINE r == ResetTimeout(k)
           n == [r EXCEPT !.queued_writes = @ + 1]
           a == [n EXCEPT !.inflight = @ + 1]
           m == Write(k, how)
<1>1. CASE ~IsOpen(k)
  BY <1>1 DEF Write, Stays
<1>2. CASE IsOpen(k)
  <2>1. m = IF k.broken THEN n ELSE IF how = "sync" THEN OnSend(n) ELSE a
    BY <1>2 DEF Write, Send
  <2>2. /\ r \in Conn /\ r.handle = k.handle /\ r.reading = k.reading
        /\ r.queued_close = k.queued_close /\ r.timed = k.timed
        /\ k.armed => r.armed
    BY DEF ResetTimeout, Conn
  <2> HIDE DEF r
  <2>3. /\ n \in Conn /\ n.handle = k.handle /\ n.reading = k.reading
        /\ n.queued_close = k.queued_close /\ n.timed = k.timed
        /\ k.armed => n.armed
    BY <2>2 DEF Conn
  <2> HIDE DEF n, m
  <2>4. /\ a.handle = k.handle /\ a.reading = k.reading
        /\ a.queued_close = k.queued_close /\ a.timed = k.timed
        /\ k.armed => a.armed
    BY <2>3 DEF Conn
  <2> HIDE DEF a
  <2>5. Stays(k, a)
    BY <2>4, SameStays
  <2>6. Stays(k, OnSend(n)) /\ Stays(k, n)
    BY <2>3, OnSendStays, SameStays
  <2> QED BY <2>1, <2>5, <2>6 DEF m
<1> QED BY <1>1, <1>2

LEMMA WriteCallbackStays ==
    ASSUME NEW k, Sound(k), k.inflight > 0
    PROVE  Stays(k, WriteCallback(k))
<1> DEFINE l == [k EXCEPT !.inflight = @ - 1]
<1>1. k \in Conn /\ k.inflight - 1 \in Nat
  BY DEF Sound, Conn
<1>2. /\ l \in Conn /\ l.handle = k.handle /\ l.reading = k.reading
      /\ l.queued_close = k.queued_close /\ l.timed = k.timed /\ l.armed = k.armed
  BY <1>1 DEF Conn
<1>3. WriteCallback(k) = OnSend(l)
  BY DEF WriteCallback
<1> HIDE DEF l
<1> QED BY <1>2, <1>3, OnSendStays, SameStays

LEMMA ReplyEnds ==
    ASSUME NEW k, Sound(k), Live(k), NEW how \in Hows
    PROVE  LET m == Reply(k, how) IN Ends(m) /\ (Watched(k) => Watched(m))
<1> DEFINE w == Write(k, how)
<1>1. w \in Conn /\ k \in Conn
  BY WriteSound DEF Sound
<1>2. Watched(k) => Watched(w)
  BY <1>1, WriteStays DEF Stays
<1>3. Reply(k, how) = Close(w)
  BY DEF Reply
<1> HIDE DEF w
<1> QED BY <1>1, <1>2, <1>3, CloseEnds

(* The connection a dispatch hands to the handler.                         *)
LEMMA DispatchWatched ==
    ASSUME NEW k, Sound(k), k.handle = "open"
    PROVE  /\ Watched(k) => Watched(StopListening(k))
           /\ TIMEOUTS => Watched(HandlerTimeout(StopListening(k)))
<1>1. k \in Conn
  BY DEF Sound
<1> QED BY <1>1 DEF StopListening, HandlerTimeout, SetTimeout, Watched, Conn

(* A step in which connection c becomes m: a context stops serving c only  *)
(* when the step ends c, and serves every other connection it served.      *)
Tends(c, m) ==
    LET k == conn[c]
    IN  /\ Become(c, m)
        /\ TIMEOUTS /\ Watched(k) => Watched(m)
        /\ \A x \in Contexts, d \in Clients :
              Serves(x, d) /\ ~(d = c /\ Ends(m)) => Serves(x, d)'
        /\ m.handle = "open" /\ ~m.reading =>
              \/ m.queued_close
              \/ k.handle = "open" /\ ~k.reading /\ ~k.queued_close
              \/ \E x \in Contexts : Serves(x, c)'

LEMMA TendsInv ==
    ASSUME AInv, IInv', NEW c \in Clients, NEW m, Tends(c, m)
    PROVE  AInv'
<1>1. conn \in [Clients -> Conn]
  BY DEF AInv, IInv, TypeOK, ConnTypeOK
<1>2. \A d \in Clients : conn'[d] = IF d = c THEN m ELSE conn[d]
  BY <1>1 DEF Tends, Become
<1>3. TIMEOUTS => \A d \in Clients : Watched(conn'[d])
  BY <1>2 DEF AInv, Tends
<1>4. ASSUME NEW d \in Clients, conn'[d].handle = "open", ~conn'[d].reading,
             ~conn'[d].queued_close
      PROVE  \E x \in Contexts : Serves(x, d)'
  <2>1. CASE d # c
    <3>1. PICK x \in Contexts : Serves(x, d)
      BY <1>2, <1>4, <2>1 DEF AInv, Attended
    <3> QED BY <2>1, <3>1 DEF Tends
  <2>2. CASE d = c
    <3>1. CASE \E x \in Contexts : Serves(x, c)'
      BY <2>2, <3>1
    <3>2. CASE conn[c].handle = "open" /\ ~conn[c].reading /\ ~conn[c].queued_close
      <4>1. PICK x \in Contexts : Serves(x, c)
        BY <3>2 DEF AInv, Attended
      <4>2. ~Ends(m)
        BY <1>2, <1>4, <2>2 DEF Ends
      <4> QED BY <2>2, <4>1, <4>2 DEF Tends
    <3> QED BY <1>2, <1>4, <2>2, <3>1, <3>2 DEF Tends
  <2> QED BY <2>1, <2>2
<1>5. \A d \in Clients : Attended(d)'
  BY <1>4 DEF Attended
<1> QED BY <1>3, <1>5 DEF AInv, Watched

(* With the contexts left alone, the calls tell.                           *)
LEMMA StaysTends ==
    ASSUME AInv, NEW c \in Clients, NEW m, Become(c, m), UNCHANGED ctx,
           Stays(conn[c], m)
    PROVE  Tends(c, m)
BY DEF Tends, Stays, Serves

LEMMA EndsTends ==
    ASSUME AInv, NEW c \in Clients, NEW m, Become(c, m), UNCHANGED ctx,
           TIMEOUTS /\ Watched(conn[c]) => Watched(m), Ends(m)
    PROVE  Tends(c, m)
BY DEF Tends, Ends, Serves

LEMMA AcceptTends ==
    ASSUME AInv, NEW c \in Clients, OnAccept(c)
    PROVE  \E m : Tends(c, m)
<1>1. PICK t \in GarbageTimeout : Become(c, Listen(AcceptTimeout(NewClient(t))))
  BY DEF OnAccept
<1> DEFINE n == NewClient(t)
           a == AcceptTimeout(n)
           m == Listen(a)
<1>2. n \in Conn /\ n.handle = "open" /\ ~n.broken
  BY ClientAssumption DEF NewClient, NoConn, Conn, Handles
<1> HIDE DEF n
<1>3. a \in Conn /\ a.handle = "open" /\ ~a.broken /\ (TIMEOUTS => a.timed /\ a.armed)
  BY <1>2 DEF AcceptTimeout, SetTimeout, Conn
<1> HIDE DEF a
<1>4. m.reading /\ m.timed = a.timed /\ m.armed = a.armed
  BY <1>3 DEF Listen, Conn
<1> HIDE DEF m
<1>5. UNCHANGED ctx /\ Become(c, m)
  BY <1>1 DEF OnAccept, m, a, n
<1> QED BY <1>3, <1>4, <1>5 DEF Tends, Serves, Ends, Watched

LEMMA FileHandled ==
    ASSUME AInv, NEW c \in Clients, c \in running, HandleFile(c)
    PROVE  \E m : Tends(c, m)
<1> DEFINE k == conn[c]
           m == HandlerTimeout(StopListening(k))
<1>1. Sound(k) /\ k.handle = "open" /\ ctx \in [Contexts -> Ctx]
  BY DEF AInv, IInv, TypeOK
<1>2. Become(c, m)
  BY DEF HandleFile, EndRound
<1>3. PICK x \in Contexts :
         /\ ctx[x].pc = "free"
         /\ ctx' = [ctx EXCEPT ![x] = [pc |-> "stat", client |-> c, offset |-> 0]]
  BY DEF HandleFile
<1>4. Serves(x, c)' /\ \A d : ~Serves(x, d)
  BY <1>1, <1>3 DEF Serves, NeedsClient, Stages
<1>5. \A y \in Contexts, d \in Clients : Serves(y, d) => Serves(y, d)'
  BY <1>1, <1>3, <1>4 DEF Serves
<1>6. TIMEOUTS => Watched(m)
  BY <1>1, DispatchWatched
<1> QED BY <1>2, <1>4, <1>5, <1>6 DEF Tends

LEMMA ReadTends ==
    ASSUME AInv, NEW c \in Clients, OnRead(c)
    PROVE  \E m : Tends(c, m)
<1> DEFINE k == conn[c]
           s == StopListening(k)
           h == HandlerTimeout(s)
<1>1. /\ k \in Conn /\ Sound(k) /\ Live(k) /\ k.handle = "open" /\ c \in running
  BY DEF OnRead, AInv, IInv, Sound, Live
<1>2. ASSUME NEW m, NEW r, EndRound(c, m, r), UNCHANGED ctx, Stays(k, m)
      PROVE  Tends(c, m)
  BY <1>2, StaysTends DEF EndRound
<1>3. ASSUME NEW m, NEW r, EndRound(c, m, r), UNCHANGED ctx,
             TIMEOUTS /\ Watched(k) => Watched(m), Ends(m)
      PROVE  Tends(c, m)
  BY <1>3, EndsTends DEF EndRound
<1>4. Stays(k, k)
  BY DEF Stays
<1>5. CASE ReadNothing(c) \/ ReadPart(c)
  BY <1>2, <1>4, <1>5 DEF ReadNothing, ReadPart
<1>6. CASE ReadHello(c)
  BY <1>1, <1>2, <1>6, WriteStays DEF ReadHello
<1>7. CASE ReadError(c)
  <2>1. PICK l \in {k} \cup {Write(k, how) : how \in Hows} : EndRound(c, Crash(l), req[c])
    BY <1>7 DEF ReadError
  <2>2. l \in Conn
    BY <1>1, AlertSound, WriteSound DEF Sound
  <2> QED BY <1>3, <1>7, <2>1, <2>2, CrashEnds DEF ReadError
<1>8. CASE ReadTooLong(c)
  BY <1>1, <1>3, <1>8, CrashEnds DEF ReadTooLong
<1>9. s \in Conn /\ Sound(s) /\ Live(s) /\ s.handle = "open"
  BY <1>1, StopListeningSound DEF StopListening, Sound, Live, Conn
<1>10. h \in Conn /\ Sound(h) /\ Live(h) /\ (TIMEOUTS => Watched(h))
       /\ (Watched(k) => Watched(s))
  BY <1>1, DispatchSound, DispatchWatched DEF Sound
<1> HIDE DEF s, h
<1>11. CASE Reject(c)
  BY <1>3, <1>9, <1>11, CrashEnds DEF Reject, s
<1>12. CASE RefuseUnmatched(c)
  <2>1. PICK how \in Hows :
           EndRound(c, Reply(StopListening(conn[c]), how), Dispatched(c, "nomatch"))
    BY <1>12 DEF RefuseUnmatched
  <2>2. Ends(Reply(s, how)) /\ (Watched(k) => Watched(Reply(s, how)))
    BY <1>9, <1>10, ReplyEnds
  <2>3. UNCHANGED ctx /\ Reply(StopListening(conn[c]), how) = Reply(s, how)
    BY <1>12 DEF RefuseUnmatched, s
  <2> HIDE DEF k
  <2> QED BY <1>3, <2>1, <2>2, <2>3
<1>13. CASE HandleAtOnce(c)
  <2>1. PICK route \in {"redirect", "illegal"}, how \in Hows :
           /\ EndRound(c, Reply(HandlerTimeout(StopListening(conn[c])), how),
                       Dispatched(c, route))
           /\ UNCHANGED ctx
    BY <1>13 DEF HandleAtOnce
  <2>2. Ends(Reply(h, how)) /\ (TIMEOUTS => Watched(Reply(h, how)))
    BY <1>10, ReplyEnds
  <2>3. Reply(HandlerTimeout(StopListening(conn[c])), how) = Reply(h, how)
    BY DEF h, s
  <2> HIDE DEF k
  <2> QED BY <1>3, <2>1, <2>2, <2>3
<1>14. CASE HandleFile(c)
  BY <1>1, <1>14, FileHandled
<1> QED
  BY <1>5, <1>6, <1>7, <1>8, <1>11, <1>12, <1>13, <1>14 DEF OnRead

LEMMA ClientStepTends ==
    ASSUME AInv, NEW c \in Clients, ClientStep(c)
    PROVE  \E m : Tends(c, m)
<1> DEFINE k == conn[c]
<1>1. /\ k \in Conn /\ Sound(k)
  BY DEF AInv, IInv, Sound
<1>2. CASE OnAccept(c)
  BY <1>2, AcceptTends
<1>3. CASE OnRecv(c)
  BY <1>1, <1>3, ResetTimeoutStays, StaysTends DEF OnRecv
<1>4. CASE OnRecvEnd(c)
  <2>1. PICK m \in {EndCallback(k), FailCallback(k)} : Become(c, m) /\ UNCHANGED ctx
    BY <1>4 DEF OnRecvEnd
  <2>2. PICK b \in BOOLEAN : m = Close([k EXCEPT !.reading = FALSE, !.broken = b])
    <3>1. /\ EndCallback(k) = Close([k EXCEPT !.reading = FALSE, !.broken = k.broken])
          /\ FailCallback(k) = Close([k EXCEPT !.reading = FALSE, !.broken = TRUE])
          /\ k.broken \in BOOLEAN
      BY <1>1 DEF EndCallback, FailCallback, Conn
    <3> QED BY <2>1, <3>1
  <2> DEFINE s == [k EXCEPT !.reading = FALSE, !.broken = b]
  <2>3. s \in Conn /\ s.handle = k.handle /\ s.timed = k.timed /\ s.armed = k.armed
    BY <1>1 DEF Conn
  <2>4. m = Close(s)
    BY <2>2
  <2> HIDE DEF s
  <2>5. Ends(m) /\ (Watched(s) => Watched(m))
    BY <2>3, <2>4, CloseEnds
  <2>6. Watched(k) => Watched(m)
    BY <2>3, <2>5 DEF Watched
  <2> QED BY <2>1, <2>5, <2>6, EndsTends
<1>5. CASE OnRead(c)
  BY <1>5, ReadTends
<1>6. CASE OnWritten(c)
  BY <1>1, <1>6, WriteCallbackStays, StaysTends DEF OnWritten, CanFinishWrite
<1>7. CASE OnTimeout(c)
  <2> DEFINE s == [k EXCEPT !.armed = FALSE]
             m == TimerCallback(k)
  <2>1. s \in Conn
    BY <1>1 DEF Conn
  <2>2. m = Crash(s)
    BY DEF TimerCallback
  <2> HIDE DEF s, m
  <2>3. Ends(m) /\ Watched(m)
    BY <2>1, <2>2, CrashEnds
  <2>4. Become(c, m) /\ UNCHANGED ctx
    BY <1>7 DEF OnTimeout, m
  <2> QED BY <2>3, <2>4, EndsTends
<1>8. CASE OnClose(c)
  <2> DEFINE m == Freed(k)
  <2>1. Ends(m) /\ Watched(m)
    BY <1>1 DEF Freed, Ends, Watched, Conn
  <2>2. Become(c, m) /\ UNCHANGED ctx
    BY <1>8 DEF OnClose
  <2> HIDE DEF m
  <2> QED BY <2>1, <2>2, EndsTends
<1> QED
  BY <1>2, <1>3, <1>4, <1>5, <1>6, <1>7, <1>8 DEF ClientStep

(* A callback of x that leaves x a request to wait for serves on; one that *)
(* ends the connection may do with the context what it likes.              *)
LEMMA CallbackTends ==
    ASSUME AInv, NEW x \in Contexts, NEW stage, Callback(x, stage),
           NEW m, Become(ctx[x].client, m),
           TIMEOUTS /\ Watched(conn[ctx[x].client]) => Watched(m),
           NEW e \in Ctx, ctx' = [ctx EXCEPT ![x] = e],
           \/ Ends(m)
           \/ /\ e.pc \in NeedsClient /\ e.client = ctx[x].client
              /\ Stays(conn[ctx[x].client], m)
    PROVE  \E c \in Clients : Tends(c, m)
<1> DEFINE c == ctx[x].client
<1>1. /\ c \in Clients /\ ctx \in [Contexts -> Ctx]
  BY DEF Callback, AInv, IInv, TypeOK, ConnTypeOK
<1>2. \A y \in Contexts : ctx'[y] = IF y = x THEN e ELSE ctx[y]
  BY <1>1
<1>3. ASSUME NEW y \in Contexts, NEW d \in Clients, Serves(y, d), ~(d = c /\ Ends(m))
      PROVE  Serves(y, d)'
  BY <1>1, <1>2, <1>3 DEF Serves
<1>4. m.handle = "open" /\ ~m.reading =>
         \/ m.queued_close
         \/ conn[c].handle = "open" /\ ~conn[c].reading /\ ~conn[c].queued_close
  BY DEF Ends, Stays
<1> QED BY <1>1, <1>3, <1>4 DEF Tends

LEMMA FileStepTends ==
    ASSUME AInv, NEW x \in Contexts, FileStep(x)
    PROVE  \/ \E c \in Clients : \E m : Tends(c, m)
           \/ UNCHANGED conn /\ \A y \in Contexts, d \in Clients : Serves(y, d) => Serves(y, d)'
<1> DEFINE c == ctx[x].client
           k == conn[c]
           t == ctx[x]
<1>1. ctx \in [Contexts -> Ctx] /\ t \in Ctx /\ NoCtx \in Ctx /\ conn \in [Clients -> Conn]
  BY DEF AInv, IInv, TypeOK, ConnTypeOK, NoCtx, Ctx
<1>2. ASSUME NEW pc \in Stages \cup {"held", "free"}, Goto(x, pc)
      PROVE  \E e \in Ctx : /\ ctx' = [ctx EXCEPT ![x] = e]
                            /\ e.pc = pc /\ e.client = c
  <2> DEFINE e == [t EXCEPT !.pc = pc]
  <2>1. e \in Ctx /\ e.pc = pc /\ e.client = c
    BY <1>1 DEF Ctx
  <2>2. ctx' = [ctx EXCEPT ![x] = e]
    BY <1>1, <1>2 DEF Goto
  <2> HIDE DEF e
  <2> QED BY <2>1, <2>2
<1>3. ASSUME Free(x)
      PROVE  \E e \in Ctx : ctx' = [ctx EXCEPT ![x] = e]
  BY <1>1, <1>3 DEF Free
<1>4. ASSUME NEW stage, Callback(x, stage)
      PROVE  k \in Conn /\ Sound(k) /\ Live(k)
  BY <1>4 DEF Callback, AInv, IInv, Sound, TypeOK, ConnTypeOK
<1>5. ASSUME NEW stage, Callback(x, stage), Answer(x),
             NEW e \in Ctx, ctx' = [ctx EXCEPT ![x] = e]
      PROVE  \E d \in Clients : \E m : Tends(d, m)
  <2>1. PICK how \in Hows : Become(c, Reply(k, how))
    BY <1>5 DEF Answer
  <2>2. Ends(Reply(k, how)) /\ (Watched(k) => Watched(Reply(k, how)))
    BY <1>4, <1>5, ReplyEnds
  <2> QED BY <1>5, <2>1, <2>2, CallbackTends
<1>6. ASSUME NEW stage, Callback(x, stage), UNCHANGED conn,
             NEW pc \in NeedsClient, Goto(x, pc)
      PROVE  \E d \in Clients : \E m : Tends(d, m)
  <2>1. PICK e \in Ctx : ctx' = [ctx EXCEPT ![x] = e] /\ e.pc = pc /\ e.client = c
    BY <1>2, <1>6 DEF NeedsClient
  <2>2. Become(c, k) /\ Stays(k, k)
    BY <1>1, <1>6 DEF Become, Stays, Callback, AInv, IInv
  <2>3. e.pc \in NeedsClient /\ e.client = ctx[x].client
    BY <2>1
  <2> QED BY <1>6, <2>1, <2>2, <2>3, CallbackTends
<1>7. ASSUME NEW stage, Callback(x, stage), NEW how \in Hows, Become(c, Write(k, how)),
             NEW e \in Ctx, ctx' = [ctx EXCEPT ![x] = e],
             e.pc \in NeedsClient, e.client = c
      PROVE  \E d \in Clients : \E m : Tends(d, m)
  <2>1. Stays(k, Write(k, how))
    BY <1>4, <1>7, WriteStays
  <2>2. Watched(k) => Watched(Write(k, how))
    BY <2>1 DEF Stays
  <2> QED BY <1>7, <2>1, <2>2, CallbackTends
<1>8. ASSUME NEW stage, Callback(x, stage), NEW l \in Conn, Watched(k) => Watched(l),
             Become(c, Close(l)), NEW e \in Ctx, ctx' = [ctx EXCEPT ![x] = e]
      PROVE  \E d \in Clients : \E m : Tends(d, m)
  <2>1. Ends(Close(l)) /\ (Watched(k) => Watched(Close(l)))
    BY <1>8, CloseEnds
  <2> QED BY <1>8, <2>1, CallbackTends
<1>9. {"scan", "open", "read", "stat"} \subseteq NeedsClient
      /\ "close" \in Stages
  BY DEF NeedsClient, Stages
<1> HIDE DEF t
<1>10. CASE HandleOnStat(x)
  <2>1. CASE Answer(x) /\ Goto(x, "held")
    BY <1>2, <1>5, <1>10, <2>1 DEF HandleOnStat
  <2>2. CASE \E next \in {"scan", "open"} : Goto(x, next) /\ UNCHANGED <<conn, req>>
    BY <1>6, <1>9, <1>10, <2>2 DEF HandleOnStat
  <2> QED BY <1>10, <2>1, <2>2 DEF HandleOnStat
<1>11. CASE FileOnOpen(x)
  <2>1. CASE Answer(x) /\ Goto(x, "held")
    BY <1>2, <1>5, <1>11, <2>1 DEF FileOnOpen
  <2>2. CASE /\ \E how \in Hows : Become(c, Write(k, how))
             /\ ctx' = [ctx EXCEPT ![x].pc = "read", ![x].offset = 0]
    <3>1. PICK how \in Hows : Become(c, Write(k, how))
      BY <2>2
    <3> DEFINE e == [ctx[x] EXCEPT !.pc = "read", !.offset = 0]
    <3>2. ctx' = [ctx EXCEPT ![x] = e]
      BY <1>1, <2>2
    <3>3. e \in Ctx /\ e.pc = "read" /\ e.client = c
      BY <1>1 DEF Ctx, Stages
    <3> HIDE DEF e
    <3> QED BY <1>7, <1>9, <1>11, <3>1, <3>2, <3>3 DEF FileOnOpen
  <2> QED BY <1>11, <2>1, <2>2 DEF FileOnOpen
<1>12. CASE FileOnRead(x)
  <2>0. Callback(x, "read")
    BY <1>12 DEF FileOnRead
  <2>1. CASE Become(c, Close(k)) /\ Goto(x, "close")
    <3>1. PICK e \in Ctx : ctx' = [ctx EXCEPT ![x] = e]
      BY <1>2, <1>9, <2>1
    <3>2. k \in Conn
      BY <1>4, <2>0
    <3> QED BY <1>8, <2>0, <2>1, <3>1, <3>2
  <2>2. CASE /\ \E how \in Hows : Become(c, Write(k, how))
             /\ ctx' = [ctx EXCEPT ![x].offset = @ + 1]
    <3>1. PICK how \in Hows : Become(c, Write(k, how))
      BY <2>2
    <3> DEFINE e == [ctx[x] EXCEPT !.offset = @ + 1]
    <3>2. ctx' = [ctx EXCEPT ![x] = e]
      BY <1>1, <2>2
    <3>3. e \in Ctx /\ e.pc = "read" /\ e.client = c
      BY <1>1, <2>0 DEF Ctx, Callback
    <3> HIDE DEF e
    <3> QED BY <1>7, <1>9, <2>0, <3>1, <3>2, <3>3
  <2> QED BY <1>12, <2>1, <2>2 DEF FileOnRead
<1>13. CASE FileOnClose(x)
  <2>1. PICK e \in Ctx : ctx' = [ctx EXCEPT ![x] = e]
    BY <1>2, <1>13 DEF FileOnClose
  <2>2. UNCHANGED conn /\ ctx[x].pc = "close"
    BY <1>13 DEF FileOnClose
  <2>3. \A y \in Contexts, d \in Clients : Serves(y, d) => y # x
    BY <2>2 DEF Serves, NeedsClient
  <2> QED BY <1>1, <2>1, <2>2, <2>3 DEF Serves
<1>14. CASE DirOnScan(x)
  <2>0. Callback(x, "scan")
    BY <1>14 DEF DirOnScan
  <2>1. CASE Answer(x) /\ Free(x)
    BY <1>3, <1>5, <2>0, <2>1
  <2>2. CASE Goto(x, "open") /\ UNCHANGED <<conn, req>>
    BY <1>6, <1>9, <2>0, <2>2
  <2>3. CASE \E n \in 1..MaxListing, header, listing \in Hows :
                /\ Become(c, Close(Write(Write(k, header), listing)))
                /\ Free(x)
    <3>1. PICK header \in Hows, listing \in Hows :
             Become(c, Close(Write(Write(k, header), listing))) /\ Free(x)
      BY <2>3
    <3>2. PICK e \in Ctx : ctx' = [ctx EXCEPT ![x] = e]
      BY <1>3, <3>1
    <3> DEFINE u == Write(k, header)
               v == Write(u, listing)
    <3>3. Sound(u) /\ Live(u) /\ (Watched(k) => Watched(u)) /\ u \in Conn
      BY <1>4, <2>0, WriteSound, WriteStays DEF Stays, Sound
    <3>4. Become(c, Close(v))
      BY <3>1
    <3> HIDE DEF u
    <3>5. v \in Conn /\ (Watched(u) => Watched(v))
      BY <3>3, WriteSound, WriteStays DEF Stays, Sound
    <3> HIDE DEF v
    <3> QED BY <1>8, <2>0, <3>2, <3>3, <3>4, <3>5
  <2> QED BY <1>14, <2>1, <2>2, <2>3 DEF DirOnScan
<1> QED
  BY <1>10, <1>11, <1>12, <1>13, <1>14 DEF FileStep

LEMMA AttendedInit == Init => AInv
<1> SUFFICES ASSUME Init PROVE AInv
  OBVIOUS
<1>1. IInv
  BY InitInv
<1>2. \A c \in Clients : conn[c].handle = "none"
  BY DEF Init, NoConn
<1> QED BY <1>1, <1>2 DEF AInv, Attended, Watched

LEMMA AttendedNext == AInv /\ [Next]_vars => AInv'
<1> SUFFICES ASSUME AInv, [Next]_vars PROVE AInv'
  OBVIOUS
<1>1. IInv'
  BY NextMoves, MovesInv DEF AInv
<1>2. ASSUME UNCHANGED conn,
             \A y \in Contexts, d \in Clients : Serves(y, d) => Serves(y, d)'
      PROVE  AInv'
  <2>1. \A d \in Clients : Attended(d)'
    BY <1>2 DEF AInv, Attended
  <2> QED BY <1>1, <1>2, <2>1 DEF AInv, Watched
<1>3. CASE UNCHANGED vars
  BY <1>2, <1>3 DEF vars, Serves
<1>4. CASE \E c \in Clients : ClientStep(c)
  BY <1>1, <1>4, ClientStepTends, TendsInv
<1>5. CASE \E x \in Contexts : FileStep(x)
  BY <1>1, <1>2, <1>5, FileStepTends, TendsInv
<1> QED BY <1>3, <1>4, <1>5 DEF Next

LEMMA SpecAttended == Spec => []AInv
BY AttendedInit, AttendedNext, PTL DEF Spec

----------------------------------------------------------------------------
(***************************************************************************)
(* Nothing is written once a read has failed: by then the connection was   *)
(* read, so that no request of it was dispatched, and the read loop is not *)
(* running.  Hence a count stays exact, and a queued close has a write to  *)
(* wait for.  Timers are only started on connections that are open.        *)
(***************************************************************************)
Timely(k) == k.closing => ~k.armed

Exact(k) == k.queued_writes = k.inflight

Sealed(c) ==
    /\ Timely(conn[c]) /\ Exact(conn[c])
    /\ conn[c].broken => c \notin running
    /\ \A x \in Contexts :
          Serves(x, c) => ~conn[c].reading /\ ~conn[c].broken /\ conn[c].handle # "none"

XInv ==
    /\ IInv
    /\ \A c \in Clients : Sealed(c)

(* What every call but Listen keeps.                                       *)
Keeps(k, m) ==
    /\ m.broken = k.broken
    /\ m.reading => k.reading
    /\ k.handle # "none" => m.handle # "none"
    /\ Timely(k) => Timely(m)

LEMMA KeepsTransitive ==
    ASSUME NEW k, NEW l, NEW m, Keeps(k, l), Keeps(l, m)
    PROVE  Keeps(k, m)
BY DEF Keeps

LEMMA CloseKeeps ==
    ASSUME NEW k \in Conn
    PROVE  Keeps(k, Close(k)) /\ (Exact(k) => Exact(Close(k)))
<1> DEFINE m == Close(k)
           d == [k EXCEPT !.closing = TRUE, !.queued_close = FALSE, !.armed = FALSE]
<1>1. CASE k.queued_writes > 0 /\ ~k.queued_close
  <2>1. m = [k EXCEPT !.queued_close = TRUE]
    BY <1>1 DEF Close
  <2> QED BY <2>1 DEF Keeps, Timely, Exact, Conn
<1>2. CASE ~(k.queued_writes > 0 /\ ~k.queued_close)
  <2>1. m = UvClose(d)
    BY <1>2 DEF Close
  <2>2. /\ d \in Conn /\ d.handle = k.handle /\ d.broken = k.broken /\ ~d.armed
        /\ d.reading = k.reading /\ d.inflight = k.inflight
        /\ d.queued_writes = k.queued_writes
    BY DEF Conn
  <2> HIDE DEF m, d
  <2>3. /\ m.broken = d.broken /\ (m.reading => d.reading) /\ ~m.armed
        /\ m.inflight = d.inflight /\ m.queued_writes = d.queued_writes
        /\ d.handle # "none" => m.handle # "none"
    BY <2>1, <2>2 DEF UvClose, Conn
  <2> QED BY <2>2, <2>3 DEF Keeps, Timely, Exact, m
<1> QED BY <1>1, <1>2

LEMMA CrashKeeps ==
    ASSUME NEW k \in Conn
    PROVE  Keeps(k, Crash(k)) /\ (Exact(k) => Exact(Crash(k)))
<1> DEFINE m == Crash(k)
           d == [k EXCEPT !.queued_close = FALSE, !.closing = TRUE, !.armed = FALSE]
<1>1. m = UvCloseReset(d)
  BY DEF Crash
<1>2. /\ d \in Conn /\ d.handle = k.handle /\ d.broken = k.broken /\ ~d.armed
      /\ d.reading = k.reading /\ d.inflight = k.inflight
      /\ d.queued_writes = k.queued_writes
  BY DEF Conn
<1> HIDE DEF m, d
<1>3. /\ m.broken = d.broken /\ (m.reading => d.reading) /\ ~m.armed
      /\ m.inflight = d.inflight /\ m.queued_writes = d.queued_writes
      /\ d.handle # "none" => m.handle # "none"
  BY <1>1, <1>2 DEF UvCloseReset, Conn
<1> QED BY <1>2, <1>3 DEF Keeps, Timely, Exact, m

LEMMA OnSendKeeps ==
    ASSUME NEW k \in Conn
    PROVE  Keeps(k, OnSend(k))
<1> DEFINE d == Decrement(k.queued_writes)
           l == [k EXCEPT !.queued_writes = d]
           m == OnSend(k)
<1>1. d \in Nat
  BY ClientAssumption DEF Decrement, Conn
<1>2. m = IF l.queued_writes = 0 /\ l.queued_close THEN Close(l) ELSE l
  BY DEF OnSend
<1> HIDE DEF d
<1>3. l \in Conn /\ Keeps(k, l)
  BY <1>1 DEF Conn, Keeps, Timely
<1> HIDE DEF l, m
<1>4. m = Close(l) \/ m = l
  BY <1>2
<1> QED BY <1>3, <1>4, CloseKeeps, KeepsTransitive DEF m

LEMMA WriteKeeps ==
    ASSUME NEW k, Sound(k), Live(k), NEW how \in Hows
    PROVE  Keeps(k, Write(k, how))
<1> DEFINE r == ResetTimeout(k)
           n == [r EXCEPT !.queued_writes = @ + 1]
           a == [n EXCEPT !.inflight = @ + 1]
           m == Write(k, how)
<1>1. CASE ~IsOpen(k)
  BY <1>1 DEF Write, Keeps
<1>2. CASE IsOpen(k)
  <2>1. m = IF k.broken THEN n ELSE IF how = "sync" THEN OnSend(n) ELSE a
    BY <1>2 DEF Write, Send
  <2>2. r \in Conn /\ ~r.closing /\ Keeps(k, r)
    BY <1>2 DEF ResetTimeout, Conn, Sound, IsOpen, Keeps, Timely
  <2> HIDE DEF r
  <2>3. n \in Conn /\ Keeps(r, n)
    BY <2>2 DEF Conn, Keeps, Timely
  <2> HIDE DEF n, m
  <2>4. Keeps(n, a)
    BY <2>3 DEF Conn, Keeps, Timely
  <2> HIDE DEF a
  <2>5. Keeps(k, n)
    BY <2>2, <2>3, KeepsTransitive
  <2>6. Keeps(k, a) /\ Keeps(k, OnSend(n))
    BY <2>3, <2>4, <2>5, OnSendKeeps, KeepsTransitive
  <2> QED BY <2>1, <2>5, <2>6 DEF m
<1> QED BY <1>1, <1>2

(* What the callbacks of the files do to a connection.                     *)
LEMMA FileMoveKeeps ==
    ASSUME NEW k, NEW m, Sound(k), Live(k), FileMove(k, m)
    PROVE  Keeps(k, m)
<1>1. ASSUME NEW l, Sound(l), Live(l)
      PROVE  /\ l \in Conn /\ Keeps(l, Close(l))
             /\ \A how \in Hows : /\ Sound(Write(l, how)) /\ Live(Write(l, how))
                                  /\ Keeps(l, Write(l, how))
  BY <1>1, CloseKeeps, WriteKeeps, WriteSound DEF Sound
<1>2. ASSUME NEW l, Sound(l), Live(l), NEW how \in Hows
      PROVE  Keeps(l, Close(Write(l, how)))
  <2> DEFINE u == Write(l, how)
  <2>1. Sound(u) /\ Live(u) /\ Keeps(l, u)
    BY <1>1, <1>2
  <2> HIDE DEF u
  <2>2. Keeps(l, Close(u))
    BY <1>1, <2>1, KeepsTransitive
  <2> QED BY <2>2 DEF u
<1>3. CASE m = k
  BY <1>3 DEF Keeps
<1>4. CASE \E how \in Hows : m = Reply(k, how) \/ m = Write(k, how)
  BY <1>1, <1>2, <1>4 DEF Reply
<1>5. CASE m = Close(k)
  BY <1>1, <1>5
<1>6. CASE \E h1, h2 \in Hows : m = Close(Write(Write(k, h1), h2))
  <2>1. PICK h1 \in Hows, h2 \in Hows : m = Close(Write(Write(k, h1), h2))
    BY <1>6
  <2> DEFINE u == Write(k, h1)
  <2>2. Sound(u) /\ Live(u) /\ Keeps(k, u)
    BY <1>1
  <2>3. m = Close(Write(u, h2))
    BY <2>1
  <2> HIDE DEF u
  <2> QED BY <1>2, <2>2, <2>3, KeepsTransitive
<1> QED BY <1>3, <1>4, <1>5, <1>6 DEF FileMove

(* A step in which connection c becomes m and keeps what Sealed says.      *)
Goes(c, m) ==
    /\ Become(c, m)
    /\ Timely(m)
    /\ m.broken => Exact(m) /\ c \notin running'
    /\ running' \subseteq running \cup {c}
    /\ \A x \in Contexts, d \in Clients \ {c} : Serves(x, d)' => Serves(x, d)
    /\ (\E x \in Contexts : Serves(x, c)') =>
          ~m.reading /\ ~m.broken /\ m.handle # "none"

LEMMA GoesInv ==
    ASSUME XInv, IInv', NEW c \in Clients, NEW m, Goes(c, m)
    PROVE  XInv'
<1>1. \A d \in Clients : conn'[d] = IF d = c THEN m ELSE conn[d]
  BY DEF Goes, Become, XInv, IInv, TypeOK, ConnTypeOK
<1>2. Exact(m)
  <2>1. Sound(m)
    BY <1>1 DEF IInv
  <2> QED BY <2>1 DEF Goes, Sound, Exact
<1>3. \A d \in Clients : Sealed(d)'
  BY <1>1, <1>2 DEF Goes, Sealed, XInv
<1> QED BY <1>3 DEF XInv

(* A call that keeps, on a connection of which no read has failed.         *)
LEMMA KeepsGoes ==
    ASSUME XInv, NEW c \in Clients, NEW m, Become(c, m), Keeps(conn[c], m),
           ~conn[c].broken, running' \subseteq running \cup {c},
           \A x \in Contexts, d \in Clients : Serves(x, d)' => Serves(x, d)
    PROVE  Goes(c, m)
BY DEF Goes, Keeps, XInv, Sealed

LEMMA RoundGoes ==
    ASSUME XInv, NEW c \in Clients, OnRead(c)
    PROVE  \E m : Goes(c, m)
<1> DEFINE k == conn[c]
           s == StopListening(k)
           h == HandlerTimeout(s)
<1>1. /\ k \in Conn /\ Sound(k) /\ Live(k) /\ k.handle = "open" /\ c \in running
      /\ ~k.broken /\ Timely(k) /\ ctx \in [Contexts -> Ctx]
  BY DEF OnRead, XInv, Sealed, IInv, TypeOK, Sound, Live
<1>2. ASSUME NEW m, NEW r, EndRound(c, m, r), UNCHANGED ctx, Keeps(k, m)
      PROVE  Goes(c, m)
  BY <1>1, <1>2, KeepsGoes DEF EndRound, Serves
<1>3. Keeps(k, k)
  BY DEF Keeps
<1>4. /\ s \in Conn /\ Sound(s) /\ Live(s) /\ s.handle = "open" /\ ~s.reading
      /\ Keeps(k, s)
  BY <1>1, StopListeningSound DEF StopListening, Sound, Live, Conn, Keeps, Timely
<1> HIDE DEF s
<1>5. /\ h \in Conn /\ Sound(h) /\ Live(h) /\ h.handle = "open" /\ Keeps(s, h)
      /\ ~h.reading
  <2>1. Sound(h) /\ Live(h) /\ h.handle = "open"
    BY <1>4, TimeoutsSound DEF Live
  <2>2. h.broken = s.broken /\ h.reading = s.reading
    BY <1>4 DEF HandlerTimeout, SetTimeout, Conn
  <2> QED BY <1>4, <2>1, <2>2 DEF Keeps, Timely, Sound
<1>6. Keeps(k, h)
  BY <1>4, <1>5, KeepsTransitive
<1> HIDE DEF h
<1>7. CASE ReadNothing(c) \/ ReadPart(c)
  BY <1>2, <1>3, <1>7 DEF ReadNothing, ReadPart
<1>8. CASE ReadHello(c)
  BY <1>1, <1>2, <1>8, WriteKeeps DEF ReadHello
<1>9. CASE ReadError(c)
  <2>1. PICK l \in {k} \cup {Write(k, how) : how \in Hows} : EndRound(c, Crash(l), req[c])
    BY <1>9 DEF ReadError
  <2>2. l \in Conn /\ Keeps(k, l)
    BY <1>1, <1>3, WriteKeeps, WriteSound DEF Sound
  <2>3. Keeps(k, Crash(l))
    BY <2>2, CrashKeeps, KeepsTransitive
  <2> QED BY <1>2, <1>9, <2>1, <2>3 DEF ReadError
<1>10. CASE ReadTooLong(c)
  BY <1>1, <1>2, <1>10, CrashKeeps DEF ReadTooLong
<1>11. CASE Reject(c)
  <2>1. Keeps(k, Crash(s))
    BY <1>4, CrashKeeps, KeepsTransitive
  <2> QED BY <1>2, <1>11, <2>1 DEF Reject, s
<1>12. ASSUME NEW l, l = s \/ l = h, NEW how \in Hows PROVE Keeps(k, Reply(l, how))
  <2>1. Keeps(l, Reply(l, how))
    BY <1>4, <1>5, <1>12, FileMoveKeeps DEF FileMove
  <2> QED BY <1>4, <1>6, <1>12, <2>1, KeepsTransitive
<1>13. CASE RefuseUnmatched(c)
  <2>1. PICK how \in Hows : EndRound(c, Reply(s, how), Dispatched(c, "nomatch"))
    BY <1>13 DEF RefuseUnmatched, s
  <2> QED BY <1>2, <1>12, <1>13, <2>1 DEF RefuseUnmatched
<1>14. CASE HandleAtOnce(c)
  <2>1. PICK route \in {"redirect", "illegal"}, how \in Hows :
           EndRound(c, Reply(h, how), Dispatched(c, route)) /\ UNCHANGED ctx
    BY <1>14 DEF HandleAtOnce, h, s
  <2> QED BY <1>2, <1>12, <2>1
<1>15. CASE HandleFile(c)
  <2>1. EndRound(c, h, Dispatched(c, "serve"))
    BY <1>15 DEF HandleFile, h, s
  <2>2. PICK x \in Contexts :
           ctx' = [ctx EXCEPT ![x] = [pc |-> "stat", client |-> c, offset |-> 0]]
    BY <1>15 DEF HandleFile
  <2>3. \A y \in Contexts, d \in Clients \ {c} : Serves(y, d)' => Serves(y, d)
    BY <1>1, <2>2 DEF Serves
  <2>4. ~h.broken /\ Timely(h)
    BY <1>1, <1>6 DEF Keeps
  <2> QED BY <1>1, <1>5, <2>1, <2>3, <2>4 DEF Goes, EndRound
<1> QED
  BY <1>7, <1>8, <1>9, <1>10, <1>11, <1>13, <1>14, <1>15 DEF OnRead

LEMMA ClientStepGoes ==
    ASSUME XInv, NEW c \in Clients, ClientStep(c)
    PROVE  \E m : Goes(c, m)
<1> DEFINE k == conn[c]
<1>1. /\ k \in Conn /\ Sound(k) /\ Timely(k) /\ Exact(k) /\ (c \in clients <=> Live(k))
      /\ \A x \in Contexts :
            Serves(x, c) => ~k.reading /\ ~k.broken /\ k.handle # "none"
  BY DEF XInv, Sealed, IInv, Sound
<1>2. ASSUME NEW m, Become(c, m), UNCHANGED <<ctx, running>>, Idle,
             Timely(m), m.broken => Exact(m),
             k.broken \/ k.reading => m.broken \/ ~\E x \in Contexts : Serves(x, c),
             m.broken = k.broken \/ k.reading,
             m.reading => k.reading, k.handle # "none" => m.handle # "none"
      PROVE  Goes(c, m)
  BY <1>1, <1>2 DEF Goes, Serves, Idle
<1>3. CASE OnAccept(c)
  <2>1. PICK t \in GarbageTimeout : Become(c, Listen(AcceptTimeout(NewClient(t))))
    BY <1>3 DEF OnAccept
  <2> DEFINE n == NewClient(t)
             a == AcceptTimeout(n)
             m == Listen(a)
  <2>2. n \in Conn /\ n.handle = "open" /\ ~n.broken /\ ~n.closing
    BY ClientAssumption DEF NewClient, NoConn, Conn, Handles
  <2> HIDE DEF n
  <2>3. a \in Conn /\ ~a.broken /\ ~a.closing
    BY <2>2 DEF AcceptTimeout, SetTimeout, Conn
  <2> HIDE DEF a
  <2>4. ~m.broken /\ ~m.closing
    BY <2>3 DEF Listen, Conn
  <2> HIDE DEF m
  <2>5. /\ Become(c, m) /\ UNCHANGED <<ctx, running>> /\ running = {}
        /\ ~\E x \in Contexts : Serves(x, c)
    BY <1>1, <1>3, <2>1 DEF OnAccept, Idle, m, a, n
  <2> QED BY <2>4, <2>5 DEF Goes, Serves, Timely
<1>4. CASE OnRecv(c)
  <2>1. k.handle = "open" /\ ~k.closing /\ ~k.broken
    BY <1>1, <1>4 DEF OnRecv, Sound
  <2>2. Keeps(k, ResetTimeout(k))
    BY <1>1, <2>1 DEF ResetTimeout, Conn, Keeps, Timely
  <2>3. /\ Become(c, ResetTimeout(k)) /\ running' \subseteq running \cup {c}
        /\ \A x \in Contexts, d \in Clients : Serves(x, d)' => Serves(x, d)
    BY <1>4 DEF OnRecv, Serves
  <2> QED BY <2>1, <2>2, <2>3, KeepsGoes
<1>5. CASE OnRecvEnd(c)
  <2>1. PICK m \in {EndCallback(k), FailCallback(k)} :
           Become(c, m) /\ UNCHANGED <<ctx, running>> /\ Idle
    BY <1>5 DEF OnRecvEnd
  <2>2. PICK b \in BOOLEAN : m = Close([k EXCEPT !.reading = FALSE, !.broken = b])
    <3>1. /\ EndCallback(k) = Close([k EXCEPT !.reading = FALSE, !.broken = k.broken])
          /\ FailCallback(k) = Close([k EXCEPT !.reading = FALSE, !.broken = TRUE])
          /\ k.broken \in BOOLEAN
      BY <1>1 DEF EndCallback, FailCallback, Conn
    <3> QED BY <2>1, <3>1
  <2> DEFINE s == [k EXCEPT !.reading = FALSE, !.broken = b]
  <2>3. s \in Conn /\ Timely(s) /\ Exact(s) /\ s.handle = k.handle /\ ~s.reading
    BY <1>1 DEF Conn, Timely, Exact
  <2>4. m = Close(s)
    BY <2>2
  <2> HIDE DEF s
  <2>5. Timely(m) /\ Exact(m) /\ ~m.reading
    BY <2>3, <2>4, CloseKeeps DEF Keeps
  <2>6. ~\E x \in Contexts : Serves(x, c)
    BY <1>1, <1>5 DEF OnRecvEnd
  <2> QED BY <2>1, <2>5, <2>6 DEF Goes, Serves, Idle
<1>6. CASE OnRead(c)
  BY <1>6, RoundGoes
<1>7. ASSUME NEW l \in Conn, Exact(l), Timely(l), l.broken = k.broken,
             l.reading = k.reading, l.handle = k.handle,
             NEW m, Keeps(l, m), Exact(l) => Exact(m),
             Become(c, m), UNCHANGED <<ctx, running>>, Idle
      PROVE  Goes(c, m)
  BY <1>1, <1>7 DEF Goes, Serves, Idle, Keeps
<1>8. CASE OnWritten(c)
  <2> DEFINE n == k.inflight - 1
             l == [k EXCEPT !.inflight = n, !.queued_writes = n]
             m == WriteCallback(k)
  <2>1. n \in Nat /\ k.queued_writes = k.inflight /\ k.queued_writes # 0
    BY <1>1, <1>8 DEF OnWritten, CanFinishWrite, Conn, Exact
  <2>2. m = Close(l) \/ m = l
    <3>1. Decrement(k.queued_writes) = n
      BY <2>1 DEF Decrement
    <3> QED BY <1>1, <3>1 DEF WriteCallback, OnSend, Conn
  <2>3. /\ l \in Conn /\ Exact(l) /\ Timely(l) /\ l.broken = k.broken
        /\ l.reading = k.reading /\ l.handle = k.handle
    BY <1>1, <2>1 DEF Conn, Exact, Timely
  <2>4. Become(c, m) /\ UNCHANGED <<ctx, running>> /\ Idle
    BY <1>8 DEF OnWritten
  <2> HIDE DEF l, m
  <2>5. Keeps(l, m) /\ (Exact(l) => Exact(m))
    BY <2>2, <2>3, CloseKeeps DEF Keeps
  <2> QED BY <1>7, <2>3, <2>4, <2>5
<1>9. CASE OnTimeout(c)
  <2> DEFINE l == [k EXCEPT !.armed = FALSE]
             m == TimerCallback(k)
  <2>1. /\ l \in Conn /\ Exact(l) /\ Timely(l) /\ l.broken = k.broken
        /\ l.reading = k.reading /\ l.handle = k.handle
    BY <1>1 DEF Conn, Exact, Timely
  <2>2. m = Crash(l)
    BY DEF TimerCallback
  <2>3. Become(c, m) /\ UNCHANGED <<ctx, running>> /\ Idle
    BY <1>9 DEF OnTimeout
  <2> HIDE DEF l, m
  <2>4. Keeps(l, m) /\ (Exact(l) => Exact(m))
    BY <2>1, <2>2, CrashKeeps
  <2> QED BY <1>7, <2>1, <2>3, <2>4
<1>10. CASE OnClose(c)
  <2> DEFINE m == Freed(k)
  <2>1. /\ Keeps(k, m) /\ (Exact(k) => Exact(m))
    BY <1>1 DEF Freed, Conn, Keeps, Timely, Exact
  <2>2. Become(c, m) /\ UNCHANGED <<ctx, running>> /\ Idle
    BY <1>10 DEF OnClose
  <2> HIDE DEF m
  <2> QED BY <1>1, <1>7, <2>1, <2>2
<1> QED
  BY <1>3, <1>4, <1>5, <1>6, <1>8, <1>9, <1>10 DEF ClientStep

LEMMA FileStepGoes ==
    ASSUME XInv, NEW x \in Contexts, FileStep(x)
    PROVE  \/ \E c \in Clients : \E m : Goes(c, m)
           \/ /\ UNCHANGED <<conn, running>>
              /\ \A y \in Contexts, d \in Clients : Serves(y, d)' => Serves(y, d)
<1> DEFINE c == ctx[x].client
           k == conn[c]
<1>1. ctx \in [Contexts -> Ctx] /\ conn \in [Clients -> Conn]
  BY DEF XInv, IInv, TypeOK, ConnTypeOK
<1>2. \E e : /\ ctx' = [ctx EXCEPT ![x] = e]
             /\ e.pc \in NeedsClient => e.client = c /\ ctx[x].pc \in NeedsClient
  <2>1. ASSUME NEW pc, Goto(x, pc), pc \in NeedsClient => ctx[x].pc \in NeedsClient
        PROVE  \E e : /\ ctx' = [ctx EXCEPT ![x] = e]
                      /\ e.pc \in NeedsClient => e.client = c /\ ctx[x].pc \in NeedsClient
    <3> DEFINE e == [ctx[x] EXCEPT !.pc = pc]
    <3>1. e.pc = pc /\ e.client = c /\ ctx' = [ctx EXCEPT ![x] = e]
      BY <1>1, <2>1 DEF Goto, Ctx
    <3> HIDE DEF e
    <3> QED BY <2>1, <3>1
  <2>2. ASSUME Free(x)
        PROVE  \E e : /\ ctx' = [ctx EXCEPT ![x] = e]
                      /\ e.pc \in NeedsClient => e.client = c /\ ctx[x].pc \in NeedsClient
    <3>1. NoCtx.pc = "free" /\ "free" \notin NeedsClient
      BY DEF NoCtx, NeedsClient, Stages
    <3>2. ctx' = [ctx EXCEPT ![x] = NoCtx]
      BY <2>2 DEF Free
    <3> DEFINE e == NoCtx
    <3>3. /\ ctx' = [ctx EXCEPT ![x] = e]
          /\ e.pc \notin NeedsClient
      BY <3>1, <3>2
    <3> HIDE DEF e
    <3> QED BY <3>3
  <2>3. {"scan", "open", "read", "stat"} \subseteq NeedsClient
        /\ "close" \notin NeedsClient /\ "held" \notin NeedsClient
    BY DEF NeedsClient, Stages
  <2>4. CASE HandleOnStat(x)
    BY <2>1, <2>3, <2>4 DEF HandleOnStat, Callback
  <2>5. CASE FileOnOpen(x)
    <3>1. CASE Goto(x, "held")
      BY <2>1, <2>3, <3>1
    <3>2. CASE ctx' = [ctx EXCEPT ![x].pc = "read", ![x].offset = 0]
      <4> DEFINE e == [ctx[x] EXCEPT !.pc = "read", !.offset = 0]
      <4>1. e.client = c /\ ctx' = [ctx EXCEPT ![x] = e]
        BY <1>1, <3>2 DEF Ctx
      <4> HIDE DEF e
      <4> QED BY <2>3, <2>5, <4>1 DEF FileOnOpen, Callback
    <3> QED BY <2>5, <3>1, <3>2 DEF FileOnOpen
  <2>6. CASE FileOnRead(x)
    <3>1. CASE Goto(x, "close")
      BY <2>1, <2>3, <3>1
    <3>2. CASE ctx' = [ctx EXCEPT ![x].offset = @ + 1]
      <4> DEFINE e == [ctx[x] EXCEPT !.offset = @ + 1]
      <4>1. e.client = c /\ ctx' = [ctx EXCEPT ![x] = e]
        BY <1>1, <3>2 DEF Ctx
      <4> HIDE DEF e
      <4> QED BY <2>3, <2>6, <4>1 DEF FileOnRead, Callback
    <3> QED BY <2>6, <3>1, <3>2 DEF FileOnRead
  <2>7. CASE FileOnClose(x)
    BY <2>1, <2>3, <2>7 DEF FileOnClose
  <2>8. CASE DirOnScan(x)
    BY <2>1, <2>2, <2>3, <2>8 DEF DirOnScan, Callback
  <2> QED BY <2>4, <2>5, <2>6, <2>7, <2>8 DEF FileStep
<1>3. \A y \in Contexts, d \in Clients : Serves(y, d)' => Serves(y, d)
  BY <1>1, <1>2 DEF Serves
<1>4. CASE FileOnClose(x)
  BY <1>3, <1>4 DEF FileOnClose
<1>5. CASE ~FileOnClose(x)
  <2>1. \E stage \in NeedsClient : Callback(x, stage)
    BY <1>5 DEF FileStep, HandleOnStat, FileOnOpen, FileOnRead, DirOnScan, NeedsClient,
                Stages
  <2>2. /\ c \in Clients /\ Serves(x, c) /\ Sound(k) /\ Live(k) /\ ~k.broken
        /\ UNCHANGED running
    BY <2>1 DEF Callback, Serves, XInv, Sealed, IInv, TypeOK, ConnTypeOK
  <2>3. PICK m : FileMove(k, m) /\ Become(c, m)
    <3>1. UNCHANGED conn => FileMove(k, k) /\ Become(c, k)
      BY <1>1, <2>2 DEF FileMove, Become
    <3>2. Answer(x) => \E m : FileMove(k, m) /\ Become(c, m)
      BY DEF Answer, FileMove
    <3>3. (\E how \in Hows : Become(c, Write(k, how))) =>
             \E m : FileMove(k, m) /\ Become(c, m)
      BY DEF FileMove
    <3>4. Become(c, Close(k)) => \E m : FileMove(k, m) /\ Become(c, m)
      BY DEF FileMove
    <3>5. (\E h1, h2 \in Hows : Become(c, Close(Write(Write(k, h1), h2)))) =>
             \E m : FileMove(k, m) /\ Become(c, m)
      BY DEF FileMove
    <3> HIDE DEF k
    <3>6. CASE HandleOnStat(x) \/ FileOnOpen(x)
      BY <3>1, <3>2, <3>3, <3>6 DEF HandleOnStat, FileOnOpen, k
    <3>7. CASE FileOnRead(x)
      BY <3>3, <3>4, <3>7 DEF FileOnRead, k
    <3>8. CASE DirOnScan(x)
      BY <3>1, <3>2, <3>5, <3>8 DEF DirOnScan, k
    <3> QED BY <1>5, <3>6, <3>7, <3>8 DEF FileStep
  <2>4. Keeps(k, m)
    BY <2>2, <2>3, FileMoveKeeps
  <2> QED BY <1>3, <2>2, <2>3, <2>4, KeepsGoes
<1> QED BY <1>4, <1>5

LEMMA InitSealed == Init => XInv
BY InitInv DEF Init, XInv, Sealed, NoConn, NoCtx, Timely, Exact, Serves, NeedsClient, Stages

LEMMA NextSealed == XInv /\ [Next]_vars => XInv'
<1> SUFFICES ASSUME XInv, [Next]_vars PROVE XInv'
  OBVIOUS
<1>1. IInv'
  BY NextMoves, MovesInv DEF XInv
<1>2. ASSUME UNCHANGED <<conn, running>>,
             \A y \in Contexts, d \in Clients : Serves(y, d)' => Serves(y, d)
      PROVE  XInv'
  BY <1>1, <1>2 DEF XInv, Sealed
<1>3. CASE UNCHANGED vars
  BY <1>2, <1>3 DEF vars, Serves
<1>4. CASE Next
  BY <1>1, <1>2, <1>4, ClientStepGoes, FileStepGoes, GoesInv DEF Next
<1> QED BY <1>3, <1>4

LEMMA SpecSealed == Spec => []XInv
BY InitSealed, NextSealed, PTL DEF Spec

(* No timer outlives the open phase of its connection.                     *)
THEOREM TimerStops == Spec => []TimerStopsWithConnection
<1>1. XInv => TimerStopsWithConnection
  BY DEF XInv, Sealed, Timely, TimerStopsWithConnection
<1> QED BY <1>1, SpecSealed, PTL

(* In the program a queued close always has a write to wait for that libuv *)
(* will report: no write is refused, as nobody writes after a failed read. *)
THEOREM ClosesAreMade == Spec => []NoCloseForgotten
<1>1. ASSUME XInv, NEW c \in Clients, conn[c].queued_close
      PROVE  conn[c].inflight > 0
  <2>1. Sound(conn[c]) /\ Exact(conn[c])
    BY <1>1 DEF XInv, Sealed, IInv
  <2> QED BY <1>1, <2>1 DEF Sound, Exact
<1>2. XInv => NoCloseForgotten
  BY <1>1 DEF NoCloseForgotten
<1> QED BY <1>2, SpecSealed, PTL

(* Every live connection waits for something that can still happen,        *)
(* whatever the peers send and the timers do.                              *)
THEOREM NobodyForgotten == Spec => []WaitsForSomething
<1>1. AInv /\ XInv => WaitsForSomething
  <2> SUFFICES ASSUME AInv, XInv, NEW c \in clients, conn[c].handle = "open",
                      ~conn[c].reading, ~(conn[c].inflight > 0)
               PROVE  \E x \in Contexts : Serves(x, c)
    BY DEF WaitsForSomething, Serves
  <2>1. c \in Clients /\ Sound(conn[c]) /\ Attended(c)
    BY DEF AInv, IInv, TypeOK, ConnTypeOK
  <2>2. ~conn[c].queued_close
    BY <2>1 DEF Sound, XInv, Sealed, Exact
  <2> QED BY <2>1, <2>2 DEF Attended
<1> QED BY <1>1, SpecAttended, SpecSealed, PTL

(* With timeouts built in the timer of every open connection runs, also    *)
(* while a handler works and while a close waits for its writes.           *)
THEOREM TimersRun == Spec => []TimerAlwaysArmed
<1>1. AInv => TimerAlwaysArmed
  <2> SUFFICES ASSUME AInv, TIMEOUTS, NEW c \in clients, IsOpen(conn[c])
               PROVE  conn[c].armed
    BY DEF TimerAlwaysArmed
  <2>1. c \in Clients /\ Sound(conn[c]) /\ Watched(conn[c])
    BY DEF AInv, IInv, TypeOK, ConnTypeOK
  <2>2. conn[c].handle = "open"
    BY <2>1 DEF Sound, IsOpen, Conn, Handles
  <2> QED BY <2>1, <2>2 DEF Watched
<1> QED BY <1>1, SpecAttended, PTL

----------------------------------------------------------------------------
(***************************************************************************)
(* The read loop leaves nothing unread.  One loop runs at a time, and it   *)
(* ends with every record read or the connection shut; nothing opens that  *)
(* again.  Of a long record a rest is left only once the header has reached*)
(* its limit: the header of a routed request is not empty, so that it has  *)
(* no room for a long record, and a second read of one exceeds the limit.  *)
(***************************************************************************)
Filled(r) ==
    /\ r.rest => r.length = HeaderMax /\ r.route = "none"
    /\ r.route # "none" => r.length # 0

Drained(c) ==
    conn[c].handle \in {"none", "open"} =>
        /\ c \notin running => req[c].inbox = <<>>
        /\ Filled(req[c])

DInv ==
    /\ IInv
    /\ \A c, d \in running : c = d
    /\ \A c \in Clients : Drained(c)

LEMMA ReadFilled ==
    ASSUME NEW c \in Clients, req[c] \in Req, Filled(req[c]), DataRead(c),
           HeaderLength(c) <= HeaderMax
    PROVE  /\ ~HeaderFinished(c) => Filled(AfterRead(c))
           /\ HeaderFinished(c) =>
                 \A route \in AllRoutes : Filled(Dispatched(c, route))
<1> DEFINE r == req[c]
           t == Taken(c)
           n == Pieces(c)
           a == AfterRead(c)
<1>1. /\ r \in Req /\ r.length \in Nat /\ HeaderMax \in Nat \ {0}
      /\ r.length + n <= HeaderMax
  BY ServerAssumption DEF Req, HeaderLength
<1>2. ~r.rest
  <2>1. r.rest => n = 1
    BY DEF Pieces, NextIs
  <2> QED
    BY <1>1, <2>1 DEF Filled
<1>3. r.inbox # <<>> /\ Consumed(c) \in Req
  <2>1. r.inbox # <<>>
    BY <1>2 DEF DataRead, Reads, NextIs
  <2>2. Tail(r.inbox) \in Seq(Records)
    BY <1>1, <2>1 DEF Req
  <2> QED
    BY <1>1, <2>1, <2>2 DEF Consumed, Req
<1>4. /\ Consumed(c).rest = FALSE /\ Consumed(c).length = r.length
      /\ Consumed(c).route = r.route
  BY <1>1, <1>2 DEF Consumed, Req
<1>5. t \in Req /\ t.length = r.length /\ t.route = r.route
  <2> DEFINE l == NextIs(c, "long")
  <2>1. l \in BOOLEAN
    BY DEF NextIs
  <2> HIDE DEF l
  <2>2. t \in {[Consumed(c) EXCEPT !.tls = "ended"],
               [Consumed(c) EXCEPT !.rest = l]}
    BY <1>2 DEF Taken, l
  <2> HIDE DEF t
  <2> QED
    BY <1>3, <1>4, <2>1, <2>2 DEF Req
<1>6. t.rest => NextIs(c, "long")
  BY <1>2, <1>3, <1>4 DEF Taken, Req
<1>7. n \in Nat /\ (NextIs(c, "long") => n = HeaderMax) /\ (NextIs(c, "line") => n = 1)
  <2>1. NextIs(c, "long") => ~NextIs(c, "notify") /\ ~NextIs(c, "line")
    BY DEF NextIs
  <2>2. NextIs(c, "line") => ~NextIs(c, "notify")
    BY DEF NextIs
  <2> QED
    BY <1>1, <2>1, <2>2 DEF Pieces
<1> HIDE DEF r, t, n
<1>8. /\ a \in Req /\ a.rest = t.rest /\ a.route = r.route
      /\ a.length = IF r.route = "none" THEN r.length + n ELSE r.length
  <2>1. a = IF t.route = "none" THEN [t EXCEPT !.length = t.length + n] ELSE t
    BY DEF AfterRead, Longer, t, n
  <2>2. t.length + n \in Nat
    BY <1>1, <1>5, <1>7
  <2> HIDE DEF a
  <2> QED
    BY <1>5, <2>1, <2>2 DEF Req
<1> HIDE DEF a
<1>9. ASSUME ~HeaderFinished(c) PROVE Filled(a)
  <2>1. r.route = "none"
    BY <1>9 DEF HeaderFinished, r
  <2> QED
    BY <1>1, <1>6, <1>7, <1>8, <2>1 DEF Filled
<1>10. ASSUME HeaderFinished(c), NEW route \in AllRoutes
       PROVE  Filled(Dispatched(c, route))
  <2> DEFINE d == Dispatched(c, route)
  <2>1. /\ d.rest = a.rest /\ d.length = a.length
    BY <1>8 DEF Dispatched, Req, a
  <2>2. ~t.rest
    <3>1. r.route # "none" \/ NextIs(c, "line")
      BY <1>10 DEF HeaderFinished, r
    <3>2. r.route # "none" => r.length # 0
      BY DEF Filled, r
    <3>3. ~(NextIs(c, "long") /\ NextIs(c, "line"))
      BY DEF NextIs
    <3> QED
      BY <1>1, <1>6, <1>7, <3>1, <3>2, <3>3
  <2>3. a.length # 0
    <3>1. CASE r.route # "none"
      BY <1>8, <3>1 DEF Filled, r
    <3>2. CASE r.route = "none"
      BY <1>1, <1>7, <1>8, <1>10, <3>2 DEF HeaderFinished, r
    <3> QED
      BY <3>1, <3>2
  <2> HIDE DEF d
  <2> QED
    BY <1>8, <2>1, <2>2, <2>3 DEF Filled, d
<1> QED
  BY <1>9, <1>10 DEF a

(* A round that leaves the connection open leaves its request Filled.      *)
LEMMA RoundFilled ==
    ASSUME DInv, NEW c \in Clients, OnRead(c)
    PROVE  \E k, r : EndRound(c, k, r) /\ (k.handle = "open" => Filled(r))
<1>1. /\ conn[c] \in Conn /\ Sound(conn[c]) /\ Live(conn[c]) /\ req[c] \in Req
      /\ Filled(req[c])
  BY DEF OnRead, DInv, Drained, IInv, TypeOK, ConnTypeOK
<1>2. ASSUME NEW k, Sound(k), Live(k) PROVE Crash(k).handle # "open"
  BY <1>2, CrashEnds, CrashSound DEF Sound, Live, Crash, UvCloseReset, Conn, Handles
<1>3. CASE ReadNothing(c)
  BY <1>1, <1>3 DEF ReadNothing
<1>4. CASE ReadHello(c)
  <2>1. PICK how \in Hows :
           EndRound(c, Write(conn[c], how), [Consumed(c) EXCEPT !.tls = "up"])
    BY <1>4 DEF ReadHello
  <2>2. Consumed(c) \in Req
    BY <1>4, ReadTypes DEF ReadHello, NextIs, DInv
  <2>3. Filled([Consumed(c) EXCEPT !.tls = "up"])
    BY <1>1, <2>2 DEF Filled, Consumed, Req
  <2> QED
    BY <2>1, <2>3
<1>5. CASE ReadError(c)
  <2>1. PICK l \in {conn[c]} \cup {Write(conn[c], how) : how \in Hows} :
           EndRound(c, Crash(l), req[c])
    BY <1>5 DEF ReadError
  <2> QED
    BY <1>1, <2>1
<1>6. CASE ReadTooLong(c)
  <2>1. EndRound(c, Crash(conn[c]), AfterRead(c)) /\ Crash(conn[c]).handle # "open"
    BY <1>1, <1>2, <1>6 DEF ReadTooLong
  <2> QED
    BY <2>1
<1>7. CASE ReadPart(c)
  BY <1>1, <1>7, ReadFilled DEF ReadPart
<1>8. ASSUME NEW route, CanDispatch(c, route) PROVE Filled(Dispatched(c, route))
  BY <1>1, <1>8, ReadFilled, ServerAssumption DEF CanDispatch
<1>9. CASE Reject(c) \/ RefuseUnmatched(c) \/ HandleAtOnce(c) \/ HandleFile(c)
  <2>1. \E k, route : CanDispatch(c, route) /\ EndRound(c, k, Dispatched(c, route))
    BY <1>9 DEF Reject, RefuseUnmatched, HandleAtOnce, HandleFile
  <2> QED
    BY <1>8, <2>1
<1> QED
  BY <1>3, <1>4, <1>5, <1>6, <1>7, <1>9 DEF OnRead

(* No step of Lifecycle opens a connection again.                          *)
LEMMA NeverReopened ==
    ASSUME NEW k \in Conn, NEW m \in Conn, AStep(k, m), m.handle \in {"none", "open"}
    PROVE  k.handle \in {"none", "open"}
BY DEF AStep, Phase, Conn, Handles

(* What happens outside the loop reads and receives nothing.               *)
Unread(r) == <<r.inbox, r.rest, r.length, r.route>>

LEMMA OutsideDrained ==
    ASSUME DInv, IInv', UNCHANGED running,
           \A d \in Clients : Unread(req'[d]) = Unread(req[d]),
           \/ \E c \in Clients : \E m : Moves(c, m)
           \/ UNCHANGED conn
    PROVE  DInv'
<1>1. ASSUME NEW d \in Clients, conn'[d].handle \in {"none", "open"}
      PROVE  conn[d].handle \in {"none", "open"}
  <2>1. CASE UNCHANGED conn
    BY <1>1, <2>1
  <2>2. CASE \E c \in Clients : \E m : Moves(c, m)
    <3>1. PICK c \in Clients : \E m : Moves(c, m)
      BY <2>2
    <3>2. PICK m : Moves(c, m)
      BY <3>1
    <3>3. conn \in [Clients -> Conn] /\ conn[d] \in Conn /\ m \in Conn
      BY <3>2 DEF DInv, IInv, TypeOK, ConnTypeOK, Moves, Sound
    <3>4. conn'[d] = IF d = c THEN m ELSE conn[d]
      BY <3>2, <3>3 DEF Moves
    <3>5. AStep(conn[c], m)
      BY <3>2 DEF Moves
    <3> QED BY <1>1, <3>3, <3>4, <3>5, NeverReopened
  <2> QED BY <2>1, <2>2
<1>2. \A d \in Clients : /\ req'[d].inbox = req[d].inbox
                         /\ Filled(req[d]) => Filled(req'[d])
  BY DEF Unread, Filled
<1> QED BY <1>1, <1>2 DEF DInv, Drained

LEMMA RoundDrained ==
    ASSUME DInv, IInv', NEW c \in running, NEW k, NEW r, EndRound(c, k, r),
           k.handle = "open" => Filled(r)
    PROVE  DInv'
<1>1. /\ conn \in [Clients -> Conn] /\ req \in [Clients -> Req] /\ c \in Clients
      /\ c \in clients /\ running = {c}
  BY DEF DInv, IInv, TypeOK, ConnTypeOK
<1>2. \A d \in Clients : /\ conn'[d] = IF d = c THEN k ELSE conn[d]
                         /\ req'[d] = IF d = c THEN r ELSE req[d]
  BY <1>1 DEF EndRound, Become
<1>3. running' = (IF ReadsOn(k, r) THEN {c} ELSE {}) /\ c \in clients'
  BY <1>1 DEF EndRound
<1>4. Sound(k) /\ Live(k)
  <2>1. Sound(conn'[c]) /\ Live(conn'[c])
    BY <1>1, <1>3 DEF IInv
  <2> QED BY <1>1, <1>2, <2>1
<1>5. k.handle \in {"none", "open"} => IsOpen(k) /\ k.handle = "open"
  BY <1>4 DEF Sound, Live, IsOpen
<1>6. Drained(c)'
  BY <1>1, <1>2, <1>3, <1>5 DEF Drained, ReadsOn
<1>7. ASSUME NEW d \in Clients, d # c PROVE Drained(d)'
  <2>1. d \notin running /\ Drained(d)
    BY <1>1, <1>7 DEF DInv
  <2> QED BY <1>2, <1>7, <2>1 DEF Drained
<1> QED BY <1>3, <1>6, <1>7 DEF DInv

LEMMA NextDrained == DInv /\ [Next]_vars => DInv'
<1> SUFFICES ASSUME DInv, [Next]_vars PROVE DInv'
  OBVIOUS
<1>1. /\ IInv' /\ req \in [Clients -> Req]
      /\ conn \in [Clients -> Conn] /\ clients \subseteq Clients
  BY NextMoves, MovesInv DEF DInv, IInv, TypeOK, ConnTypeOK
<1>2. (\E c \in Clients : \E m : Moves(c, m)) \/ UNCHANGED conn
  BY NextMoves DEF DInv
<1>3. ASSUME UNCHANGED running, \A d \in Clients : Unread(req'[d]) = Unread(req[d])
      PROVE  DInv'
  BY <1>1, <1>2, <1>3, OutsideDrained
<1>4. CASE UNCHANGED vars
  BY <1>3, <1>4 DEF vars
<1>5. ASSUME NEW c \in Clients, ClientStep(c) PROVE DInv'
  <2>1. CASE OnRead(c)
    <3>1. \E k, r : EndRound(c, k, r) /\ (k.handle = "open" => Filled(r))
      BY <2>1, RoundFilled
    <3> QED BY <1>1, <2>1, <3>1, RoundDrained DEF OnRead
  <2>2. CASE OnRecv(c)
    <3>1. running = {} /\ running' = {c}
      BY <2>2 DEF OnRecv, Idle
    <3>2. \A d \in Clients \ {c} : conn'[d] = conn[d] /\ req'[d] = req[d]
      BY <1>1, <2>2 DEF OnRecv, Become
    <3>3. Filled(req'[c])
      <4>1. PICK g \in Segments : req' = [req EXCEPT ![c].inbox = @ \o g]
        BY <2>2 DEF OnRecv
      <4>2. Filled(req[c]) /\ req[c] \in Req
        BY <1>1, <2>2 DEF OnRecv, DInv, Drained, IInv, Sound
      <4> QED BY <1>1, <4>1, <4>2 DEF Filled, Req
    <3> QED BY <1>1, <3>1, <3>2, <3>3 DEF DInv, Drained
  <2>3. CASE OnAccept(c) \/ OnRecvEnd(c) \/ OnWritten(c) \/ OnTimeout(c) \/ OnClose(c)
    BY <1>3, <2>3 DEF OnAccept, OnRecvEnd, OnWritten, OnTimeout, OnClose
  <2> QED BY <1>5, <2>1, <2>2, <2>3 DEF ClientStep
<1>6. ASSUME NEW x \in Contexts, FileStep(x) PROVE DInv'
  <2>1. UNCHANGED running
    BY <1>6 DEF FileStep, HandleOnStat, FileOnOpen, FileOnRead, FileOnClose, DirOnScan,
                Callback
  <2>2. \/ UNCHANGED req
        \/ \E b : req' = [req EXCEPT ![ctx[x].client].buffer = b]
    BY <1>6 DEF FileStep, HandleOnStat, FileOnOpen, FileOnRead, FileOnClose, DirOnScan,
                Answer
  <2>3. ASSUME NEW b, NEW d \in Clients, req' = [req EXCEPT ![ctx[x].client].buffer = b]
        PROVE  Unread(req'[d]) = Unread(req[d])
    <3> DEFINE r == [req[d] EXCEPT !.buffer = b]
    <3>1. req'[d] = IF d = ctx[x].client THEN r ELSE req[d]
      BY <1>1, <2>3
    <3>2. Unread(r) = Unread(req[d])
      BY <1>1 DEF Req, Unread
    <3> QED BY <3>1, <3>2
  <2> QED BY <1>3, <2>1, <2>2, <2>3
<1> QED BY <1>4, <1>5, <1>6 DEF Next

LEMMA InitDrained == Init => DInv
BY InitInv DEF Init, DInv, Drained, NoReq, Filled

(* On a connection that stays open the loop of __on_recv leaves no record  *)
(* behind, and of a record longer than one read only what is past the      *)
(* limit of a header, whatever the peers send and whatever is made of it.  *)
THEOREM LoopReadsAll == Spec => []NothingLeftUnread
<1>1. DInv => NothingLeftUnread
  <2> SUFFICES ASSUME DInv, NEW c \in clients, Idle, IsOpen(conn[c])
               PROVE  req[c].inbox = <<>> /\ Filled(req[c])
    BY DEF NothingLeftUnread, Filled
  <2>1. c \in Clients /\ Sound(conn[c]) /\ Drained(c) /\ c \notin running
    BY DEF DInv, IInv, TypeOK, ConnTypeOK, Idle
  <2>2. conn[c].handle = "open"
    BY <2>1 DEF Sound, IsOpen
  <2> QED BY <2>1, <2>2 DEF Drained
<1> QED BY <1>1, InitDrained, NextDrained, PTL DEF Spec

----------------------------------------------------------------------------
(***************************************************************************)
(* No second close while handlers answer at once.  Whoever closes then is  *)
(* a round of the read loop, the end of the stream or the last write a     *)
(* close was queued behind, and each finds the handle open.                *)
(***************************************************************************)
AnswersAtOnce == "serve" \notin Routes

Single(k) == ~k.reclosed /\ (k.queued_close => k.handle = "open")

SInv ==
    /\ IInv
    /\ \A c \in Clients : Single(conn[c])
    /\ \A x \in Contexts : ctx[x].pc = "free"

LEMMA CloseSingle ==
    ASSUME NEW k \in Conn, Single(k), k.handle = "open"
    PROVE  Single(Close(k))
<1>1. CASE k.queued_writes > 0 /\ ~k.queued_close
  <2>1. Close(k) = [k EXCEPT !.queued_close = TRUE]
    BY <1>1 DEF Close
  <2> QED BY <2>1 DEF Single, Conn
<1>2. CASE ~(k.queued_writes > 0 /\ ~k.queued_close)
  <2>1. Close(k) = [k EXCEPT !.closing = TRUE, !.queued_close = FALSE, !.armed = FALSE,
                             !.handle = "closing", !.reading = FALSE]
    BY <1>2 DEF Close, UvClose, Conn
  <2> QED BY <2>1 DEF Single, Conn
<1> QED BY <1>1, <1>2

LEMMA CrashSingle ==
    ASSUME NEW k \in Conn, Single(k)
    PROVE  Single(Crash(k))
BY DEF Crash, UvCloseReset, Single, Conn

(* The calls that neither write nor close.                                 *)
LEMMA SettingsSingle ==
    ASSUME NEW k, Sound(k), k.handle = "open", Single(k)
    PROVE  /\ Sound(ResetTimeout(k)) /\ Single(ResetTimeout(k))
           /\ Sound(StopListening(k)) /\ Single(StopListening(k))
           /\ StopListening(k).handle = "open"
           /\ Sound(HandlerTimeout(k)) /\ Single(HandlerTimeout(k))
           /\ HandlerTimeout(k).handle = "open"
<1>1. k \in Conn
  BY DEF Sound
<1>2. /\ Single(ResetTimeout(k)) /\ Single(StopListening(k))
      /\ StopListening(k).handle = "open"
  BY <1>1 DEF ResetTimeout, StopListening, Single, Conn
<1>3. Single(HandlerTimeout(k))
  BY <1>1 DEF HandlerTimeout, SetTimeout, Single, Conn
<1> QED BY <1>2, <1>3, ResetTimeoutSound, StopListeningSound, TimeoutsSound DEF Live

LEMMA WriteSingle ==
    ASSUME NEW k, Sound(k), k.handle = "open", Single(k), NEW how \in Hows
    PROVE  LET w == Write(k, how)
           IN  Sound(w) /\ w.handle = "open" /\ Single(w)
BY WriteSound DEF Live, Single

LEMMA ReplySingle ==
    ASSUME NEW k, Sound(k), k.handle = "open", Single(k), NEW how \in Hows
    PROVE  Single(Reply(k, how))
<1> DEFINE w == Write(k, how)
<1>1. Sound(w) /\ w.handle = "open" /\ Single(w)
  BY WriteSingle
<1> HIDE DEF w
<1>2. Single(Close(w))
  BY <1>1, CloseSingle DEF Sound
<1> QED BY <1>2 DEF Reply, w

LEMMA WriteCallbackSingle ==
    ASSUME NEW k, Sound(k), Single(k), k.inflight > 0
    PROVE  Single(WriteCallback(k))
<1> DEFINE n == Decrement(k.queued_writes)
           l == [k EXCEPT !.inflight = @ - 1, !.queued_writes = n]
<1>1. k \in Conn /\ k.queued_writes \in Nat \ {0}
  BY DEF Sound, Conn
<1>2. n \in Nat /\ k.inflight - 1 \in Nat
  BY <1>1 DEF Decrement, Conn
<1>3. WriteCallback(k) = IF n = 0 /\ k.queued_close THEN Close(l) ELSE l
  BY <1>1 DEF WriteCallback, OnSend, Conn
<1>4. l \in Conn /\ l.handle = k.handle /\ Single(l)
  BY <1>1, <1>2 DEF Conn, Single
<1> HIDE DEF l, n
<1>5. CASE n = 0 /\ k.queued_close
  <2>1. l.handle = "open"
    BY <1>4, <1>5 DEF Single
  <2> QED BY <1>3, <1>4, <1>5, <2>1, CloseSingle
<1>6. CASE ~(n = 0 /\ k.queued_close)
  BY <1>3, <1>4, <1>6
<1> QED BY <1>5, <1>6

(* What a round of the read loop makes of the connection.                  *)
LEMMA RoundSingle ==
    ASSUME SInv, AnswersAtOnce, NEW c \in Clients, OnRead(c)
    PROVE  \E k : Become(c, k) /\ Single(k) /\ UNCHANGED ctx
<1> DEFINE k == conn[c]
           s == StopListening(k)
           h == HandlerTimeout(s)
<1>1. Sound(k) /\ k \in Conn /\ k.handle = "open" /\ Single(k)
  BY DEF OnRead, SInv, IInv, Sound
<1>2. Sound(s) /\ s.handle = "open" /\ Single(s)
  BY <1>1, SettingsSingle
<1> HIDE DEF s
<1>3. Sound(h) /\ h.handle = "open" /\ Single(h)
  BY <1>2, SettingsSingle
<1> HIDE DEF h
<1>4. CASE ReadNothing(c) \/ ReadPart(c)
  BY <1>1, <1>4 DEF ReadNothing, ReadPart, EndRound
<1>5. CASE ReadHello(c)
  <2>1. PICK how \in Hows : Become(c, Write(k, how)) /\ UNCHANGED ctx
    BY <1>5 DEF ReadHello, EndRound
  <2> QED BY <1>1, <2>1, WriteSingle
<1>6. CASE ReadError(c)
  <2>1. PICK l \in {k} \cup {Write(k, how) : how \in Hows} :
           Become(c, Crash(l)) /\ UNCHANGED ctx
    BY <1>6 DEF ReadError, EndRound
  <2>2. Sound(l) /\ Single(l)
    BY <1>1, WriteSingle
  <2> QED BY <2>1, <2>2, CrashSingle DEF Sound
<1>7. CASE ReadTooLong(c)
  BY <1>1, <1>7, CrashSingle DEF ReadTooLong, EndRound
<1>8. CASE Reject(c)
  <2>1. Become(c, Crash(s)) /\ UNCHANGED ctx
    BY <1>8 DEF Reject, EndRound, s
  <2> QED BY <1>2, <2>1, CrashSingle DEF Sound
<1>9. CASE RefuseUnmatched(c)
  <2>1. PICK how \in Hows : Become(c, Reply(s, how)) /\ UNCHANGED ctx
    BY <1>9 DEF RefuseUnmatched, EndRound, s
  <2> QED BY <1>2, <2>1, ReplySingle
<1>10. CASE HandleAtOnce(c)
  <2>1. PICK how \in Hows : Become(c, Reply(h, how)) /\ UNCHANGED ctx
    BY <1>10 DEF HandleAtOnce, EndRound, h, s
  <2> QED BY <1>3, <2>1, ReplySingle
<1>11. ~HandleFile(c)
  BY DEF HandleFile, CanDispatch, AnswersAtOnce
<1> QED BY <1>4, <1>5, <1>6, <1>7, <1>8, <1>9, <1>10, <1>11 DEF OnRead

LEMMA ClientStepSingle ==
    ASSUME SInv, AnswersAtOnce, NEW c \in Clients, ClientStep(c)
    PROVE  \E k : Become(c, k) /\ Single(k) /\ UNCHANGED ctx
<1> DEFINE k == conn[c]
<1>1. Sound(k) /\ k \in Conn /\ Single(k)
  BY DEF SInv, IInv, Sound
<1>2. CASE OnAccept(c)
  <2>1. PICK t \in GarbageTimeout : Become(c, Listen(AcceptTimeout(NewClient(t))))
    BY <1>2 DEF OnAccept
  <2> DEFINE n == NewClient(t)
             a == AcceptTimeout(n)
  <2>2. n \in Conn /\ n.handle = "open" /\ Single(n)
    BY ClientAssumption DEF NewClient, NoConn, Conn, Handles, Single
  <2> HIDE DEF n
  <2>3. a \in Conn /\ Single(a)
    BY <2>2 DEF AcceptTimeout, SetTimeout, Conn, Single
  <2> HIDE DEF a
  <2>4. Single(Listen(a))
    BY <2>3 DEF Listen, Conn, Single
  <2> QED BY <1>2, <2>1, <2>4 DEF OnAccept, a, n
<1>3. CASE OnRecv(c)
  <2>1. k.handle = "open"
    BY <1>1, <1>3 DEF OnRecv, Sound
  <2> QED BY <1>1, <1>3, <2>1, SettingsSingle DEF OnRecv
<1>4. CASE OnRecvEnd(c)
  <2> DEFINE s == [k EXCEPT !.reading = FALSE]
             f == [k EXCEPT !.broken = TRUE, !.reading = FALSE]
  <2>1. k.handle = "open"
    BY <1>1, <1>4 DEF OnRecvEnd, Sound
  <2>2. /\ s \in Conn /\ s.handle = "open" /\ Single(s)
        /\ f \in Conn /\ f.handle = "open" /\ Single(f)
    BY <1>1, <2>1 DEF Single, Conn
  <2>3. EndCallback(k) = Close(s) /\ FailCallback(k) = Close(f)
    BY <1>1 DEF EndCallback, FailCallback, Conn
  <2> HIDE DEF s, f
  <2>4. Single(EndCallback(k)) /\ Single(FailCallback(k))
    BY <2>2, <2>3, CloseSingle
  <2> QED BY <1>4, <2>4 DEF OnRecvEnd
<1>5. CASE OnRead(c)
  BY <1>5, RoundSingle
<1>6. CASE OnWritten(c)
  <2>1. Single(WriteCallback(k))
    BY <1>1, <1>6, WriteCallbackSingle DEF OnWritten, CanFinishWrite
  <2> QED BY <1>6, <2>1 DEF OnWritten
<1>7. CASE OnTimeout(c)
  <2> DEFINE l == [k EXCEPT !.armed = FALSE]
  <2>1. l \in Conn /\ Single(l)
    BY <1>1 DEF Conn, Single
  <2>2. TimerCallback(k) = Crash(l)
    BY DEF TimerCallback
  <2> HIDE DEF l
  <2>3. Single(TimerCallback(k))
    BY <2>1, <2>2, CrashSingle
  <2> QED BY <1>7, <2>3 DEF OnTimeout
<1>8. CASE OnClose(c)
  <2>1. Become(c, Freed(k)) /\ UNCHANGED ctx /\ k.handle # "open"
    BY <1>8 DEF OnClose, CanRelease
  <2>2. Single(Freed(k))
    BY <1>1, <2>1 DEF Freed, Single, Conn
  <2> QED BY <2>1, <2>2
<1> QED BY <1>2, <1>3, <1>4, <1>5, <1>6, <1>7, <1>8 DEF ClientStep

(* No handler has a file request out, so that no file callback runs.       *)
LEMMA NextSingle == ASSUME AnswersAtOnce PROVE SInv /\ [Next]_vars => SInv'
<1> SUFFICES ASSUME SInv, [Next]_vars PROVE SInv'
  OBVIOUS
<1>1. IInv' /\ conn \in [Clients -> Conn]
  BY NextMoves, MovesInv DEF SInv, IInv, TypeOK, ConnTypeOK
<1>2. CASE UNCHANGED vars
  BY <1>1, <1>2 DEF vars, SInv
<1>3. ASSUME NEW c \in Clients, ClientStep(c) PROVE SInv'
  <2>1. PICK k : Become(c, k) /\ Single(k) /\ UNCHANGED ctx
    BY <1>3, ClientStepSingle
  <2>2. \A d \in Clients : Single(conn'[d])
    BY <1>1, <2>1 DEF Become, SInv
  <2> QED BY <1>1, <2>1, <2>2 DEF SInv
<1>4. ASSUME NEW x \in Contexts, FileStep(x) PROVE FALSE
  <2>1. ctx[x].pc = "free"
    BY DEF SInv
  <2> QED BY <1>4, <2>1 DEF FileStep, HandleOnStat, FileOnOpen, FileOnRead, FileOnClose,
                            DirOnScan, Callback
<1> QED BY <1>2, <1>3, <1>4 DEF Next

LEMMA InitSingle == Init => SInv
BY InitInv DEF Init, SInv, Single, NoConn, NoCtx

(* With timers, and with more data behind the request line, a handle is    *)
(* closed once as long as every request is answered where it is read.      *)
THEOREM ClosedOnceAtOnce ==
    ASSUME AnswersAtOnce PROVE Spec => []NeverClosedTwice
<1>1. SInv => NeverClosedTwice
  BY DEF SInv, Single, NeverClosedTwice, Aborted
<1> QED BY <1>1, InitSingle, NextSingle, PTL DEF Spec

=============================================================================
