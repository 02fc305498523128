-------------------------- MODULE QuietServerProofs --------------------------
(***************************************************************************)
(* What holds of GeminiServer, for any number of connections, contexts and *)
(* file system outcomes, when nothing disturbs a request that was          *)
(* dispatched: no timer runs, the peer sends nothing behind its request    *)
(* line in the same read, and a listing fits one block.  Each of the three *)
(* conditions is needed: the runs MCGeminiOutlives, MCGeminiTwice and      *)
(* MCGeminiListing refute the properties without it.                       *)
(***************************************************************************)
EXTENDS GeminiServerProofs

LineLast(s) == \A i \in 1..Len(s) : s[i] = "line" => i = Len(s)

Undisturbed ==
    /\ GarbageTimeout = {FALSE}
    /\ ~TIMEOUTS
    /\ MaxListing = 1
    /\ \A s \in Segments : LineLast(s)

(* A connection no timer, no second close and no refused write has touched;*)
(* its close waits for the writes, and reading has stopped by then.        *)
Unharmed(k) ==
    /\ ~k.timed /\ ~k.armed /\ ~k.reclosed
    /\ Exact(k)
    /\ k.queued_close => k.handle = "open" /\ ~k.reading
    /\ k.handle = "closing" => k.inflight = 0

(* ... that a handler may still use.                                       *)
Usable(k) == k.handle = "open" /\ ~k.queued_close /\ ~k.broken

(* A connection k and its request r; rd: its read loop runs.               *)
Calm(k, r, rd) ==
    /\ Unharmed(k)
    /\ r.buffer = 0
    /\ LineLast(r.inbox)
    /\ rd => r.route = "none" /\ Usable(k)
    /\ r.route # "none" => ~k.reading /\ r.handled = 1
    /\ r.route = "none" => r.handled = 0
    /\ k.handle = "open" /\ ~rd => r.inbox = <<>>
    /\ k.handle = "none" => r = NoReq

(* The inductive invariant: DInv (at most one connection is being read, and*)
(* a rest only with a full header), every connection is calm, and a pending*)
(* file request has a usable client of its own, whose request was          *)
(* dispatched.                                                             *)
QInv ==
    /\ DInv
    /\ \A c \in Clients : Calm(conn[c], req[c], c \in running)
    /\ \A x \in Contexts, c \in Clients : Serves(x, c) =>
          c \in requests /\ Usable(conn[c]) /\ req[c].route # "none"
    /\ \A x, y \in Contexts, c \in Clients :
          Serves(x, c) /\ Serves(y, c) => x = y
    /\ \A x \in Contexts : ctx[x].pc \in NeedsClient => ctx[x].client \in Clients

----------------------------------------------------------------------------
(* The methods, on a connection that is unharmed.                          *)

LEMMA WriteUsable ==
    ASSUME NEW k, Sound(k), Unharmed(k), Usable(k), NEW how \in Hows
    PROVE  LET w == Write(k, how)
           IN  /\ Sound(w) /\ Live(w) /\ Unharmed(w) /\ Usable(w)
               /\ w.reading = k.reading
<1> DEFINE r == ResetTimeout(k)
           n == [r EXCEPT !.queued_writes = @ + 1]
           w == Write(k, how)
<1>1. k \in Conn /\ Live(k) /\ k.handle = "open"
  BY DEF Sound, Live, Usable
<1>2. Write(k, how) = Send(k, how)
  BY <1>1 DEF Write, IsOpen, Sound
<1>3. /\ r \in Conn /\ r.handle = "open" /\ ~r.queued_close /\ ~r.reclosed
      /\ ~r.timed /\ ~r.armed /\ r.reading = k.reading /\ ~r.broken
      /\ r.queued_writes = r.inflight
  BY <1>1 DEF ResetTimeout, Conn, Unharmed, Usable, Exact
<1> HIDE DEF r
<1>4. /\ n \in Conn /\ n.handle = "open" /\ ~n.queued_close /\ ~n.reclosed
      /\ ~n.timed /\ ~n.armed /\ n.reading = k.reading /\ ~n.broken
      /\ n.queued_writes = n.inflight + 1
  BY <1>3 DEF Conn
<1>5. Send(k, how) = IF how = "sync" THEN OnSend(n)
                                    ELSE [n EXCEPT !.inflight = @ + 1]
  BY <1>4 DEF Send, Usable, r
<1> HIDE DEF n
<1>6. /\ w.handle = "open" /\ ~w.queued_close /\ ~w.reclosed
      /\ ~w.timed /\ ~w.armed /\ w.reading = k.reading /\ ~w.broken
      /\ w.queued_writes = w.inflight
  <2>1. CASE how = "sync"
    <3>1. w = [n EXCEPT !.queued_writes = n.inflight]
      <4>1. Decrement(n.queued_writes) = n.inflight
        BY <1>4 DEF Decrement, Conn
      <4> QED
        BY <1>2, <1>4, <1>5, <2>1, <4>1 DEF OnSend, Conn
    <3> QED
      BY <1>4, <3>1 DEF Conn
  <2>2. CASE how # "sync"
    <3>1. w = [n EXCEPT !.inflight = @ + 1]
      BY <1>2, <1>5, <2>2
    <3> QED
      BY <1>4, <3>1 DEF Conn
  <2> QED
    BY <2>1, <2>2
<1>7. Sound(w) /\ Live(w)
  BY <1>1, WriteSound
<1> QED
  BY <1>6, <1>7 DEF Unharmed, Usable, Exact

(* A close of a usable connection waits for its writes or happens at once. *)
LEMMA CloseUnharmed ==
    ASSUME NEW k, Sound(k), Unharmed(k), Usable(k), ~k.reading
    PROVE  LET m == Close(k)
           IN  /\ Sound(m) /\ Live(m) /\ Unharmed(m)
               /\ ~m.reading
<1> DEFINE m == Close(k)
<1>1. k \in Conn /\ Live(k) /\ k.handle = "open"
  BY DEF Sound, Live, Usable
<1>2. Sound(m) /\ Live(m)
  BY <1>1, CloseSound
<1>3. CASE k.queued_writes > 0
  <2>1. m = [k EXCEPT !.queued_close = TRUE]
    BY <1>3 DEF Close, Usable
  <2>2. /\ ~m.timed /\ ~m.armed /\ ~m.reclosed /\ m.handle = "open" /\ ~m.reading
        /\ Exact(m)
    BY <1>1, <2>1 DEF Conn, Unharmed, Exact
  <2> QED
    BY <1>2, <2>2 DEF Unharmed
<1>4. CASE ~(k.queued_writes > 0)
  <2>1. m = [k EXCEPT !.closing = TRUE, !.queued_close = FALSE, !.armed = FALSE,
                      !.handle = "closing", !.reading = FALSE]
    BY <1>1, <1>4 DEF Close, UvClose, Conn
  <2>2. k.inflight = 0
    BY <1>1, <1>4 DEF Unharmed, Exact, Conn
  <2>3. /\ ~m.timed /\ ~m.armed /\ ~m.reclosed /\ ~m.queued_close /\ ~m.reading
        /\ m.inflight = 0 /\ Exact(m)
    BY <1>1, <2>1, <2>2 DEF Conn, Unharmed, Exact
  <2> QED
    BY <1>2, <2>3 DEF Unharmed
<1> QED
  BY <1>3, <1>4

LEMMA CrashUnharmed ==
    ASSUME NEW k, Sound(k), Unharmed(k), k.handle = "open"
    PROVE  LET m == Crash(k)
           IN  /\ Sound(m) /\ Live(m) /\ Unharmed(m) /\ ~m.reading
               /\ m.handle = "resetting" /\ m.broken = k.broken
<1> DEFINE m == Crash(k)
<1>1. Sound(m) /\ Live(m) /\ m.handle = "resetting"
  BY CrashSound DEF Live
<1>2. m = [k EXCEPT !.queued_close = FALSE, !.closing = TRUE, !.armed = FALSE,
                    !.handle = "resetting", !.reading = FALSE]
  BY DEF Crash, UvCloseReset, Sound, Conn
<1>3. /\ ~m.timed /\ ~m.armed /\ ~m.reclosed /\ ~m.queued_close /\ ~m.reading
      /\ Exact(m) /\ m.broken = k.broken
  BY <1>2 DEF Sound, Conn, Unharmed, Exact
<1> QED
  BY <1>1, <1>3 DEF Unharmed

LEMMA StopListeningUnharmed ==
    ASSUME NEW k, Sound(k), Unharmed(k), Usable(k)
    PROVE  LET m == StopListening(k)
           IN  Sound(m) /\ Live(m) /\ Unharmed(m) /\ Usable(m) /\ ~m.reading
<1> DEFINE m == StopListening(k)
<1>1. Sound(m)
  BY StopListeningSound DEF Live, Usable
<1>2. /\ m.handle = "open" /\ ~m.queued_close /\ ~m.reading
      /\ ~m.timed /\ ~m.armed /\ ~m.reclosed /\ ~m.broken /\ Exact(m)
  BY DEF StopListening, Sound, Conn, Unharmed, Usable, Exact
<1> QED
  BY <1>1, <1>2 DEF Unharmed, Usable, Live

LEMMA ReplyUnharmed ==
    ASSUME NEW k, Sound(k), Unharmed(k), Usable(k), ~k.reading, NEW how \in Hows
    PROVE  LET m == Reply(k, how)
           IN  Sound(m) /\ Live(m) /\ Unharmed(m) /\ ~m.reading
<1> DEFINE w == Write(k, how)
<1>1. Sound(w) /\ Unharmed(w) /\ Usable(w) /\ ~w.reading
  BY WriteUsable
<1> HIDE DEF w
<1>2. LET m == Close(w)
      IN  Sound(m) /\ Live(m) /\ Unharmed(m) /\ ~m.reading
  BY <1>1, CloseUnharmed
<1> QED
  BY <1>2 DEF Reply, w

(* A finished write may be the one a close was waiting for.                *)
LEMMA WriteCallbackUnharmed ==
    ASSUME NEW k, Sound(k), Live(k), Unharmed(k), k.inflight > 0
    PROVE  LET m == WriteCallback(k)
           IN  /\ Unharmed(m)
               /\ m.reading => k.reading
               /\ m.handle = "open" => k.handle = "open"
               /\ Usable(k) => Usable(m)
               /\ m.handle # "none"
<1> DEFINE n == k.inflight - 1
           l == [k EXCEPT !.inflight = n, !.queued_writes = n]
           m == WriteCallback(k)
<1>1. k \in Conn /\ n \in Nat /\ k.queued_writes = k.inflight
  BY DEF Sound, Conn, Unharmed, Exact
<1>2. m = IF n = 0 /\ k.queued_close THEN Close(l) ELSE l
  <2>1. Decrement(k.queued_writes) = n
    BY <1>1 DEF Decrement
  <2> QED
    BY <1>1, <2>1 DEF WriteCallback, OnSend, Conn
<1>3. /\ l \in Conn /\ l.handle = k.handle /\ l.reading = k.reading
      /\ l.queued_close = k.queued_close /\ l.inflight = n /\ l.queued_writes = n
      /\ ~l.timed /\ ~l.armed /\ ~l.reclosed /\ l.broken = k.broken
  BY <1>1 DEF Conn, Unharmed
<1>4. CASE n = 0 /\ k.queued_close
  <2>1. k.handle = "open" /\ ~k.reading
    BY <1>4 DEF Unharmed
  <2>2. m = [l EXCEPT !.closing = TRUE, !.queued_close = FALSE, !.armed = FALSE,
                      !.handle = "closing", !.reading = FALSE]
    <3>1. m = Close(l)
      BY <1>2, <1>4
    <3> HIDE DEF l, m, n
    <3> QED
      BY <1>3, <1>4, <2>1, <3>1 DEF Close, UvClose, Conn
  <2> HIDE DEF l
  <2>3. /\ m.handle = "closing" /\ m.inflight = 0 /\ ~m.queued_close /\ ~m.reading
        /\ ~m.timed /\ ~m.armed /\ ~m.reclosed /\ m.queued_writes = m.inflight
    BY <1>3, <1>4, <2>2 DEF Conn
  <2> QED
    BY <1>4, <2>1, <2>3 DEF Unharmed, Usable, Exact
<1>5. CASE ~(n = 0 /\ k.queued_close)
  <2>1. m = l
    BY <1>2, <1>5
  <2>2. k.handle # "closing"
    BY DEF Unharmed
  <2> HIDE DEF l
  <2> QED
    BY <1>3, <2>1, <2>2 DEF Unharmed, Usable, Live, Exact
<1> QED
  BY <1>4, <1>5

LEMMA EndCallbackUnharmed ==
    ASSUME NEW k, Sound(k), Unharmed(k), k.reading,
           NEW m \in {EndCallback(k), FailCallback(k)}
    PROVE  Unharmed(m) /\ ~m.reading /\ m.handle # "none"
<1> DEFINE s == StopListening(k)
           b == [s EXCEPT !.broken = TRUE]
<1>1. Usable(k)
  BY DEF Sound, Unharmed, Usable
<1>2. Sound(s) /\ Unharmed(s) /\ Usable(s) /\ ~s.reading
  BY <1>1, StopListeningUnharmed
<1>3. CASE m = EndCallback(k)
  <2>1. m = Close(s)
    BY <1>3 DEF EndCallback, StopListening
  <2> HIDE DEF s
  <2> QED
    BY <1>2, <2>1, CloseUnharmed DEF Live
<1>4. CASE m = FailCallback(k)
  <2>1. m = Close(b)
    BY <1>4 DEF FailCallback, EndCallback, StopListening, Sound, Conn
  <2> HIDE DEF s
  <2>2. Close(b) = [Close(s) EXCEPT !.broken = TRUE]
    BY <1>2 DEF Close, UvClose, Sound, Conn, Usable
  <2>3. Sound(Close(s)) /\ Live(Close(s)) /\ Unharmed(Close(s)) /\ ~Close(s).reading
    BY <1>2, CloseUnharmed
  <2> DEFINE d == Close(s)
  <2> HIDE DEF d
  <2>4. m = [d EXCEPT !.broken = TRUE] /\ d \in Conn /\ Live(d)
        /\ Unharmed(d) /\ ~d.reading
    BY <2>1, <2>2, <2>3 DEF d, Sound
  <2> HIDE DEF b
  <2> QED
    BY <2>4 DEF Unharmed, Exact, Live, Conn
<1> QED
  BY <1>3, <1>4

----------------------------------------------------------------------------
(* The invariant, one connection at a time.  A step moves connection c to  *)
(* k and its request to r; a context that needs a connection after it      *)
(* needed it before, or has taken on c, which no other context served.     *)
QMoves(c, k, r) ==
    /\ conn' = [conn EXCEPT ![c] = k]
    /\ req' = [req EXCEPT ![c] = r]
    /\ requests \ {c} \subseteq requests'
    /\ running \in {{}, {c}} /\ running' \in {{}, {c}}
    /\ Calm(k, r, c \in running')
    /\ \A x \in Contexts : ctx'[x].pc \in NeedsClient =>
          \/ ctx'[x].client = ctx[x].client /\ ctx[x].pc \in NeedsClient
          \/ /\ ctx'[x].client = c
             /\ \A y \in Contexts \ {x} :
                   ctx'[y] = ctx[y] /\ ~Serves(y, c)
    /\ \A x \in Contexts : ctx'[x].pc \in NeedsClient /\ ctx'[x].client = c =>
          c \in requests' /\ Usable(k) /\ r.route # "none"

LEMMA QMovesInv ==
    ASSUME QInv, DInv', NEW c \in Clients, NEW k, NEW r, QMoves(c, k, r)
    PROVE  QInv'
<1>1. /\ conn \in [Clients -> Conn] /\ req \in [Clients -> Req]
      /\ requests \subseteq Clients
  BY DEF QInv, DInv, IInv, TypeOK, ConnTypeOK
<1>2. \A d \in Clients : /\ conn'[d] = IF d = c THEN k ELSE conn[d]
                         /\ req'[d] = IF d = c THEN r ELSE req[d]
  BY <1>1 DEF QMoves
<1>3. \A d \in Clients \ {c} : d \in running' <=> d \in running
  BY DEF QMoves
<1>4. \A d \in Clients : Calm(conn'[d], req'[d], d \in running')
  <2> TAKE d \in Clients
  <2>1. CASE d = c
    BY <1>2, <2>1 DEF QMoves
  <2>2. CASE d # c
    <3>1. Calm(conn[d], req[d], d \in running)
      BY DEF QInv
    <3>2. conn'[d] = conn[d] /\ req'[d] = req[d] /\ (d \in running' <=> d \in running)
      BY <1>2, <1>3, <2>2
    <3> QED
      BY <3>1, <3>2 DEF Calm
  <2> QED
    BY <2>1, <2>2
<1>6. ASSUME NEW x \in Contexts, NEW d \in Clients,
             ctx'[x].pc \in NeedsClient, ctx'[x].client = d
      PROVE  d \in requests' /\ Usable(conn'[d]) /\ req'[d].route # "none"
  <2>1. CASE d = c
    BY <1>2, <1>6, <2>1 DEF QMoves
  <2>2. CASE d # c
    <3>1. Serves(x, d)
      BY <1>6, <2>2 DEF QMoves, Serves
    <3>2. d \in requests /\ Usable(conn[d]) /\ req[d].route # "none"
      BY <3>1 DEF QInv
    <3> QED
      BY <1>2, <2>2, <3>2 DEF QMoves
  <2> QED
    BY <2>1, <2>2
<1>7. ASSUME NEW x \in Contexts, NEW y \in Contexts, NEW d \in Clients,
             ctx'[x].pc \in NeedsClient, ctx'[x].client = d,
             ctx'[y].pc \in NeedsClient, ctx'[y].client = d
      PROVE  x = y
  <2>1. CASE Serves(x, d) /\ Serves(y, d)
    BY <2>1 DEF QInv
  <2>2. CASE ~Serves(x, d)
    <3>1. d = c /\ \A z \in Contexts \ {x} : ctx'[z] = ctx[z] /\ ~Serves(z, c)
      BY <1>7, <2>2 DEF QMoves, Serves
    <3> QED
      BY <1>7, <3>1 DEF Serves
  <2>3. CASE ~Serves(y, d)
    <3>1. d = c /\ \A z \in Contexts \ {y} : ctx'[z] = ctx[z] /\ ~Serves(z, c)
      BY <1>7, <2>3 DEF QMoves, Serves
    <3> QED
      BY <1>7, <3>1 DEF Serves
  <2> QED
    BY <2>1, <2>2, <2>3
<1>8. \A x \in Contexts : ctx'[x].pc \in NeedsClient => ctx'[x].client \in Clients
  BY DEF QMoves, QInv
<1> QED
  BY <1>4, <1>6, <1>7, <1>8 DEF QInv, Serves

(* No context changed, and no context serves c unless c stays usable.      *)
LEMMA ConnMoves ==
    ASSUME QInv, NEW c \in Clients, NEW k, NEW r,
           conn' = [conn EXCEPT ![c] = k], req' = [req EXCEPT ![c] = r],
           requests \ {c} \subseteq requests',
           running \in {{}, {c}}, running' \in {{}, {c}},
           Calm(k, r, c \in running'), UNCHANGED ctx,
           \/ req[c].route = "none"
           \/ ~Usable(conn[c])
           \/ Usable(k) /\ r.route = req[c].route /\ requests \subseteq requests'
    PROVE  QMoves(c, k, r)
<1>1. \A x \in Contexts : ctx[x].pc \in NeedsClient /\ ctx[x].client = c =>
         c \in requests /\ Usable(conn[c]) /\ req[c].route # "none"
  BY DEF QInv, Serves
<1> QED
  BY <1>1 DEF QMoves

LEMMA SameRequest ==
    ASSUME IInv, NEW c, UNCHANGED req
    PROVE  req' = [req EXCEPT ![c] = req[c]]
<1>1. req \in [Clients -> Req]
  BY DEF IInv, TypeOK
<1> QED
  BY <1>1

(* What QInv says of one connection.                                       *)
LEMMA OneCalm ==
    ASSUME QInv, NEW c \in Clients
    PROVE  /\ conn[c] \in Conn /\ req[c] \in Req /\ Sound(conn[c])
           /\ Calm(conn[c], req[c], c \in running)
           /\ c \in clients <=> Live(conn[c])
           /\ requests = clients
           /\ conn[c].handle = "none" => conn[c] = NoConn
  BY DEF QInv, DInv, IInv, TypeOK, ConnTypeOK

----------------------------------------------------------------------------
(* The read loop.                                                          *)

LEMMA TailLineLast ==
    ASSUME NEW s \in Seq(Records), s # <<>>, LineLast(s)
    PROVE  /\ LineLast(Tail(s))
           /\ Head(s) = "line" => Tail(s) = <<>>
<1>1. /\ Tail(s) \in Seq(Records) /\ Len(Tail(s)) = Len(s) - 1 /\ Len(s) \in Nat
      /\ \A i \in 1..Len(Tail(s)) : Tail(s)[i] = s[i + 1] /\ i + 1 \in 1..Len(s)
  OBVIOUS
<1>2. LineLast(Tail(s))
  <2> SUFFICES ASSUME NEW i \in 1..Len(Tail(s)), Tail(s)[i] = "line"
               PROVE  i = Len(Tail(s))
    BY DEF LineLast
  <2>1. s[i + 1] = "line" /\ i + 1 \in 1..Len(s)
    BY <1>1
  <2>2. i + 1 = Len(s) /\ i \in Nat
    BY <2>1 DEF LineLast
  <2>3. Len(Tail(s)) = Len(s) - 1 /\ Len(s) \in Nat
    BY <1>1
  <2> QED
    BY <2>2, <2>3
<1>3. Head(s) = s[1] /\ 1 \in 1..Len(s)
  OBVIOUS
<1>4. CASE Head(s) = "line"
  <2>1. Len(s) = 1
    BY <1>3, <1>4 DEF LineLast
  <2> QED
    BY <1>1, <1>2, <2>1
<1> QED
  BY <1>2, <1>4

(* A round leaves the connection as k and the request as r: either not     *)
(* dispatched yet, or dispatched with nothing left to read.                *)
LEMMA RoundCalm ==
    ASSUME QInv, NEW c \in Clients, c \in running, NEW k, NEW r,
           EndRound(c, k, r), Sound(k), Live(k), Unharmed(k),
           r.buffer = 0, LineLast(r.inbox),
           \/ r.route = "none" /\ r.handled = 0 /\ ~k.queued_close /\ ~k.broken
           \/ /\ r.route # "none" /\ r.handled = 1
              /\ r.inbox = <<>> /\ ~k.reading
    PROVE  /\ conn' = [conn EXCEPT ![c] = k] /\ req' = [req EXCEPT ![c] = r]
           /\ requests' = requests
           /\ running \in {{}, {c}} /\ running' \in {{}, {c}}
           /\ Calm(k, r, c \in running')
           /\ req[c].route = "none"
<1>1. running = {c} /\ req[c].route = "none"
  BY OneCalm DEF QInv, DInv, Calm
<1>2. /\ conn' = [conn EXCEPT ![c] = k] /\ req' = [req EXCEPT ![c] = r]
      /\ requests' = requests
      /\ running' = IF ReadsOn(k, r) THEN running ELSE {}
  BY DEF EndRound, Become
<1>3. IsOpen(k) <=> k.handle = "open"
  BY DEF Sound, Live, IsOpen
<1>4. k.handle # "none"
  BY DEF Live
<1>5. Calm(k, r, c \in running')
  <2>1. CASE IsOpen(k) /\ r.inbox # <<>>
    <3>1. running' = {c}
      BY <1>1, <1>2, <2>1 DEF ReadsOn
    <3>2. r.route = "none" /\ r.handled = 0 /\ Usable(k)
      BY <1>3, <2>1 DEF Usable
    <3> QED
      BY <1>4, <3>1, <3>2 DEF Calm
  <2>2. CASE ~(IsOpen(k) /\ r.inbox # <<>>)
    <3>1. running' = {} /\ (k.handle = "open" => r.inbox = <<>>)
      BY <1>2, <1>3, <2>2 DEF ReadsOn
    <3> QED
      BY <1>4, <3>1 DEF Calm
  <2> QED
    BY <2>1, <2>2
<1> QED
  BY <1>1, <1>2, <1>5

LEMMA RoundQMoves ==
    ASSUME QInv, NEW c \in Clients, c \in running, NEW k, NEW r,
           EndRound(c, k, r), Sound(k), Live(k), Unharmed(k),
           r.buffer = 0, LineLast(r.inbox),
           \/ r.route = "none" /\ r.handled = 0 /\ ~k.queued_close /\ ~k.broken
           \/ /\ r.route # "none" /\ r.handled = 1
              /\ r.inbox = <<>> /\ ~k.reading,
           UNCHANGED ctx
    PROVE  QMoves(c, k, r)
  BY RoundCalm, ConnMoves

(* The request after one more read, and after its dispatch.                *)
LEMMA RecordRead ==
    ASSUME QInv, NEW c \in Clients, c \in running
    PROVE  /\ /\ req[c].route = "none" /\ req[c].handled = 0
              /\ req[c].buffer = 0 /\ LineLast(req[c].inbox)
           /\ req[c].inbox # <<>> =>
                LET m == Consumed(c)
                IN  /\ m.route = "none" /\ m.handled = 0 /\ m.buffer = 0
                    /\ LineLast(m.inbox)
           /\ DataRead(c) =>
                LET a == AfterRead(c)
                IN  /\ a.route = "none" /\ a.handled = 0 /\ a.buffer = 0
                    /\ LineLast(a.inbox)
                    /\ NextIs(c, "line") => a.inbox = <<>>
<1> DEFINE m == Consumed(c)
           a == AfterRead(c)
           t == Taken(c)
           i == Tail(req[c].inbox)
<1>1. /\ req[c] \in Req /\ req[c].route = "none" /\ req[c].handled = 0
      /\ req[c].buffer = 0 /\ LineLast(req[c].inbox)
  BY OneCalm DEF Calm
<1>2. ASSUME req[c].inbox # <<>>
      PROVE  /\ m.route = "none" /\ m.handled = 0 /\ m.buffer = 0
             /\ m \in Req /\ LineLast(m.inbox) /\ (NextIs(c, "line") => m.inbox = <<>>)
  <2>1. req[c].inbox \in Seq(Records)
    BY <1>1 DEF Req
  <2>2. LineLast(i) /\ (NextIs(c, "line") => i = <<>>) /\ i \in Seq(Records)
    BY <1>1, <1>2, <2>1, TailLineLast DEF NextIs
  <2> HIDE DEF i
  <2>3. m = [req[c] EXCEPT !.inbox = i]
    BY DEF Consumed, i
  <2>4. m \in Req /\ m.inbox = i /\ m.route = "none" /\ m.handled = 0 /\ m.buffer = 0
    BY <1>1, <2>2, <2>3 DEF Req
  <2> QED
    BY <2>2, <2>4
<1>3. ASSUME DataRead(c)
      PROVE  /\ a.route = "none" /\ a.handled = 0 /\ a.buffer = 0
             /\ LineLast(a.inbox) /\ (NextIs(c, "line") => a.inbox = <<>>)
  <2> DEFINE l == NextIs(c, "long")
  <2>1. l \in BOOLEAN
    BY DEF NextIs
  <2> HIDE DEF l
  <2>2. /\ t \in Req /\ t.route = "none" /\ t.handled = 0 /\ t.buffer = 0
        /\ LineLast(t.inbox) /\ (NextIs(c, "line") => t.inbox = <<>>)
    <3>1. CASE req[c].rest
      <4>1. t = [req[c] EXCEPT !.rest = FALSE] /\ ~NextIs(c, "line")
        BY <3>1 DEF Taken, NextIs
      <4> HIDE DEF t
      <4> QED
        BY <1>1, <4>1 DEF Req
    <3>2. CASE ~req[c].rest
      <4>1. t \in {[m EXCEPT !.tls = "ended"], [m EXCEPT !.rest = l]}
        BY <3>2 DEF Taken, l
      <4>2. req[c].inbox # <<>>
        BY <1>3, <3>2 DEF DataRead, Reads, NextIs
      <4> HIDE DEF t, m
      <4> QED
        BY <1>2, <2>1, <4>1, <4>2 DEF Req
    <3> QED
      BY <3>1, <3>2
  <2>3. \E n : a = [t EXCEPT !.length = n]
    BY <2>2 DEF AfterRead, Longer
  <2> HIDE DEF a, t
  <2> QED
    BY <2>2, <2>3 DEF Req
<1> QED
  BY <1>1, <1>2, <1>3

(* A header that may be dispatched ends with the record just read.         *)
LEMMA RequestDispatched ==
    ASSUME QInv, NEW c \in Clients, c \in running, NEW route \in AllRoutes,
           CanDispatch(c, route)
    PROVE  LET d == Dispatched(c, route)
           IN  /\ d.route = route /\ d.route # "none" /\ d.handled = 1
               /\ d.buffer = 0 /\ d.inbox = <<>> /\ LineLast(d.inbox)
<1> DEFINE a == AfterRead(c)
           d == Dispatched(c, route)
<1>1. DataRead(c) /\ NextIs(c, "line")
  BY RecordRead DEF CanDispatch, HeaderFinished
<1>2. req[c].inbox # <<>>
  BY <1>1 DEF NextIs
<1>3. a \in Req /\ a.handled = 0 /\ a.buffer = 0 /\ a.inbox = <<>>
  BY <1>1, <1>2, RecordRead, ReadTypes DEF QInv, DInv
<1>4. d = [a EXCEPT !.route = route, !.handled = @ + 1]
  BY DEF Dispatched
<1> HIDE DEF a
<1>5. d.route = route /\ d.handled = 1 /\ d.buffer = 0 /\ d.inbox = <<>>
  BY <1>3, <1>4 DEF Req
<1>6. route # "none" /\ LineLast(<<>>)
  BY DEF AllRoutes, LineLast
<1> QED
  BY <1>5, <1>6

LEMMA ReadMoves ==
    ASSUME QInv, Undisturbed, NEW c \in Clients, OnRead(c)
    PROVE  \E k, r : QMoves(c, k, r)
<1> DEFINE k == conn[c]
           s == StopListening(k)
<1>1. /\ c \in running /\ Sound(k) /\ Unharmed(k) /\ Usable(k) /\ k \in Conn
      /\ req[c] \in Req /\ k.handle = "open" /\ Live(k)
  BY OneCalm DEF OnRead, Calm, Usable, Live
<1>2. /\ req[c].route = "none" /\ req[c].handled = 0
      /\ req[c].buffer = 0 /\ LineLast(req[c].inbox)
  BY <1>1, RecordRead
<1>3. Sound(s) /\ Live(s) /\ Unharmed(s) /\ Usable(s) /\ ~s.reading
  BY <1>1, StopListeningUnharmed
<1>4. HandlerTimeout(s) = s
  BY DEF HandlerTimeout, Undisturbed
<1> HIDE DEF s
<1>5. CASE ReadNothing(c)
  BY <1>1, <1>2, <1>5, RoundQMoves DEF ReadNothing, Usable
<1>6. CASE ReadHello(c)
  <2> DEFINE m == [Consumed(c) EXCEPT !.tls = "up"]
  <2>1. PICK how \in Hows : EndRound(c, Write(k, how), m)
    BY <1>6 DEF ReadHello
  <2>2. req[c].inbox # <<>> /\ UNCHANGED ctx
    BY <1>6 DEF ReadHello, NextIs
  <2>3. /\ Consumed(c) \in Req /\ Consumed(c).route = "none"
        /\ Consumed(c).handled = 0 /\ Consumed(c).buffer = 0
        /\ LineLast(Consumed(c).inbox)
    BY <1>1, <2>2, RecordRead, ReadTypes DEF QInv, DInv
  <2>4. m.route = "none" /\ m.handled = 0 /\ m.buffer = 0 /\ LineLast(m.inbox)
    BY <2>3 DEF Req
  <2> HIDE DEF m
  <2>5. LET w == Write(k, how)
        IN  Sound(w) /\ Live(w) /\ Unharmed(w) /\ Usable(w)
    BY <1>1, WriteUsable
  <2> QED
    BY <1>1, <2>1, <2>2, <2>4, <2>5, RoundQMoves DEF Usable
<1>7. CASE ReadError(c)
  <2>1. PICK l \in {k} \cup {Write(k, how) : how \in Hows} :
           EndRound(c, Crash(l), req[c])
    BY <1>7 DEF ReadError
  <2>2. Sound(l) /\ Unharmed(l) /\ l.handle = "open" /\ ~l.broken
    <3>1. CASE l = k
      BY <1>1, <3>1 DEF Usable
    <3>2. CASE l # k
      <4>1. PICK how \in Hows : l = Write(k, how)
        BY <2>1, <3>2
      <4> QED
        BY <1>1, <4>1, WriteUsable DEF Usable
    <3> QED
      BY <3>1, <3>2
  <2>3. LET m == Crash(l)
        IN  /\ Sound(m) /\ Live(m) /\ Unharmed(m) /\ m.handle = "resetting"
            /\ ~m.broken
    BY <2>2, CrashUnharmed
  <2>4. ~Crash(l).queued_close
    BY <2>3 DEF Unharmed
  <2> QED
    BY <1>1, <1>2, <1>7, <2>1, <2>3, <2>4, RoundQMoves DEF ReadError
<1>8. ASSUME DataRead(c)
      PROVE  /\ AfterRead(c).route = "none" /\ AfterRead(c).handled = 0
             /\ AfterRead(c).buffer = 0 /\ LineLast(AfterRead(c).inbox)
  BY <1>1, <1>8, RecordRead
<1>9. CASE ReadTooLong(c)
  <2>1. LET m == Crash(k)
        IN  /\ Sound(m) /\ Live(m) /\ Unharmed(m) /\ m.handle = "resetting"
            /\ ~m.broken
    BY <1>1, CrashUnharmed DEF Usable
  <2>2. ~Crash(k).queued_close
    BY <2>1 DEF Unharmed
  <2> QED
    BY <1>1, <1>8, <1>9, <2>1, <2>2, RoundQMoves DEF ReadTooLong
<1>10. CASE ReadPart(c)
  BY <1>1, <1>8, <1>10, RoundQMoves DEF ReadPart, Usable
<1>11. CASE Reject(c)
  <2>1. PICK route \in {"unparsable", "nohandlers"} :
           /\ CanDispatch(c, route)
           /\ EndRound(c, Crash(s), Dispatched(c, route))
           /\ UNCHANGED ctx
    BY <1>11 DEF Reject, s
  <2>2. route \in AllRoutes
    BY DEF AllRoutes
  <2>3. LET m == Crash(s)
        IN  Sound(m) /\ Live(m) /\ Unharmed(m) /\ ~m.reading
    BY <1>3, CrashUnharmed DEF Usable
  <2> QED
    BY <1>1, <2>1, <2>2, <2>3, RequestDispatched, RoundQMoves
<1>12. CASE RefuseUnmatched(c)
  <2>1. PICK how \in Hows : EndRound(c, Reply(s, how), Dispatched(c, "nomatch"))
    BY <1>12 DEF RefuseUnmatched, s
  <2>2. CanDispatch(c, "nomatch") /\ "nomatch" \in AllRoutes /\ UNCHANGED ctx
    BY <1>12 DEF RefuseUnmatched, AllRoutes
  <2>3. LET m == Reply(s, how)
        IN  Sound(m) /\ Live(m) /\ Unharmed(m) /\ ~m.reading
    BY <1>3, ReplyUnharmed
  <2> QED
    BY <1>1, <2>1, <2>2, <2>3, RequestDispatched, RoundQMoves
<1>13. CASE HandleAtOnce(c)
  <2>1. PICK route \in {"redirect", "illegal"}, how \in Hows :
           /\ CanDispatch(c, route)
           /\ EndRound(c, Reply(HandlerTimeout(s), how), Dispatched(c, route))
           /\ UNCHANGED ctx
    BY <1>13 DEF HandleAtOnce, s
  <2>2. route \in AllRoutes
    BY DEF AllRoutes
  <2>3. LET m == Reply(s, how)
        IN  Sound(m) /\ Live(m) /\ Unharmed(m) /\ ~m.reading
    BY <1>3, ReplyUnharmed
  <2> QED
    BY <1>1, <1>4, <2>1, <2>2, <2>3, RequestDispatched, RoundQMoves
<1>14. CASE HandleFile(c)
  <2> DEFINE d == Dispatched(c, "serve")
  <2>1. EndRound(c, s, d) /\ CanDispatch(c, "serve") /\ "serve" \in AllRoutes
    BY <1>4, <1>14 DEF HandleFile, AllRoutes, s
  <2>2. PICK x \in Contexts :
           ctx' = [ctx EXCEPT ![x] = [pc |-> "stat", client |-> c, offset |-> 0]]
    BY <1>14 DEF HandleFile
  <2>3. /\ d.route # "none" /\ d.handled = 1 /\ d.buffer = 0
        /\ d.inbox = <<>> /\ LineLast(d.inbox)
    BY <1>1, <2>1, RequestDispatched
  <2> HIDE DEF d
  <2>4. /\ conn' = [conn EXCEPT ![c] = s] /\ req' = [req EXCEPT ![c] = d]
        /\ requests' = requests
        /\ running \in {{}, {c}} /\ running' \in {{}, {c}}
        /\ Calm(s, d, c \in running')
    BY <1>1, <1>3, <2>1, <2>3, RoundCalm
  <2>5. \A y \in Contexts : ~Serves(y, c)
    BY <1>2 DEF QInv
  <2>6. ctx \in [Contexts -> Ctx] /\ c \in requests
    BY <1>1, OneCalm DEF QInv, DInv, IInv, TypeOK
  <2>7. /\ ctx'[x].client = c
        /\ \A y \in Contexts \ {x} : ctx'[y] = ctx[y]
    BY <2>2, <2>6
  <2>8. QMoves(c, s, d)
    BY <1>3, <2>3, <2>4, <2>5, <2>6, <2>7 DEF QMoves, Serves
  <2> QED
    BY <2>8
<1> QED
  BY <1>5, <1>6, <1>7, <1>9, <1>10, <1>11, <1>12, <1>13, <1>14 DEF OnRead

----------------------------------------------------------------------------
(* The other events of a connection.                                       *)

LEMMA AcceptMoves ==
    ASSUME QInv, Undisturbed, NEW c \in Clients, OnAccept(c)
    PROVE  \E k, r : QMoves(c, k, r)
<1> DEFINE n == NewClient(FALSE)
           m == Listen(n)
           r == req[c]
<1>1. conn[c] = NoConn /\ r = NoReq
  BY OneCalm DEF OnAccept, Calm
<1>2. Become(c, m) /\ running = {} /\ running' = {} /\ requests' = requests \cup {c}
  BY DEF OnAccept, Undisturbed, AcceptTimeout, Idle
<1>3. /\ n \in Conn /\ n.handle = "open" /\ ~n.queued_close /\ ~n.timed /\ ~n.armed
      /\ ~n.reclosed /\ ~n.broken /\ Exact(n)
  BY DEF NewClient, NoConn, Conn, Handles, Exact
<1> HIDE DEF n
<1>4. /\ m.handle = "open" /\ ~m.queued_close /\ ~m.timed /\ ~m.armed /\ ~m.reclosed
      /\ Exact(m)
  BY <1>3 DEF Listen, Conn, Exact
<1> HIDE DEF m
<1>5. Unharmed(m)
  BY <1>4 DEF Unharmed
<1>6. /\ r.buffer = 0 /\ r.inbox = <<>> /\ r.route = "none" /\ r.handled = 0
      /\ LineLast(r.inbox)
  BY <1>1 DEF NoReq, LineLast
<1>7. UNCHANGED req /\ UNCHANGED ctx
  BY DEF OnAccept
<1>8. req' = [req EXCEPT ![c] = r]
  BY <1>7, SameRequest DEF QInv, DInv
<1> HIDE DEF r
<1>9. Calm(m, r, c \in running')
  BY <1>2, <1>4, <1>5, <1>6 DEF Calm
<1>10. conn' = [conn EXCEPT ![c] = m]
  BY <1>2 DEF Become
<1>11. req[c].route = "none"
  BY <1>6 DEF r
<1>12. QMoves(c, m, r)
  BY <1>2, <1>7, <1>8, <1>9, <1>10, <1>11, ConnMoves
<1> QED
  BY <1>12

LEMMA RecvMoves ==
    ASSUME QInv, Undisturbed, NEW c \in Clients, OnRecv(c)
    PROVE  \E k, r : QMoves(c, k, r)
<1> DEFINE k == conn[c]
           m == ResetTimeout(k)
<1>1. /\ k.reading /\ running = {} /\ running' = {c} /\ Become(c, m)
      /\ requests' = requests /\ UNCHANGED ctx
  BY DEF OnRecv, Idle
<1>2. /\ k \in Conn /\ Unharmed(k) /\ k.handle = "open" /\ ~k.queued_close /\ ~k.broken
      /\ req[c] \in Req /\ req[c].route = "none" /\ req[c].handled = 0
      /\ req[c].buffer = 0 /\ req[c].inbox = <<>>
  BY <1>1, OneCalm DEF Calm, Unharmed, Sound
<1>3. /\ m.handle = "open" /\ ~m.queued_close /\ ~m.timed /\ ~m.armed /\ ~m.reclosed
      /\ ~m.broken /\ Exact(m)
  BY <1>2 DEF ResetTimeout, Conn, Unharmed, Exact
<1>4. Unharmed(m) /\ Usable(m)
  BY <1>3 DEF Unharmed, Usable
<1>5. PICK g \in Segments : req' = [req EXCEPT ![c].inbox = @ \o g]
  BY DEF OnRecv
<1> DEFINE i == req[c].inbox \o g
           r == [req[c] EXCEPT !.inbox = i]
<1>6. g \in Seq(Records) /\ LineLast(g)
  BY ServerAssumption DEF Undisturbed
<1>7. i = g
  BY <1>2, <1>6
<1>8. req' = [req EXCEPT ![c] = r]
  BY <1>5
<1> HIDE DEF i, m
<1>9. r.inbox = g /\ r.route = "none" /\ r.handled = 0 /\ r.buffer = 0
  BY <1>2, <1>7 DEF Req
<1> HIDE DEF r
<1>10. Calm(m, r, c \in running')
  BY <1>1, <1>3, <1>4, <1>6, <1>9 DEF Calm
<1>11. conn' = [conn EXCEPT ![c] = m]
  BY <1>1 DEF Become
<1>12. QMoves(c, m, r)
  BY <1>1, <1>2, <1>8, <1>10, <1>11, ConnMoves
<1> QED
  BY <1>12

(* The close, or the last write, of a connection that is not being read.   *)
LEMMA QuietMoves ==
    ASSUME QInv, NEW c \in Clients, Idle, NEW m,
           Become(c, m), UNCHANGED <<requests, req, ctx, running>>,
           Unharmed(m), m.handle # "none",
           m.reading => conn[c].reading, m.handle = "open" => conn[c].handle = "open",
           req[c].route = "none" \/ (Usable(conn[c]) => Usable(m))
    PROVE  QMoves(c, m, req[c])
<1>1. Calm(conn[c], req[c], FALSE) /\ running = {} /\ running' = {}
  BY OneCalm DEF Idle, Calm
<1>2. Calm(m, req[c], c \in running')
  BY <1>1 DEF Calm
<1>3. req' = [req EXCEPT ![c] = req[c]]
  BY SameRequest DEF QInv, DInv
<1>4. conn' = [conn EXCEPT ![c] = m]
  BY DEF Become
<1> QED
  BY <1>1, <1>2, <1>3, <1>4, ConnMoves

LEMMA ClientStepQuiet ==
    ASSUME QInv, Undisturbed, NEW c \in Clients, ClientStep(c)
    PROVE  \E k, r : QMoves(c, k, r)
<1> DEFINE k == conn[c]
<1>1. /\ Sound(k) /\ Unharmed(k) /\ (c \in clients <=> Live(k))
      /\ Calm(k, req[c], c \in running)
  BY OneCalm DEF Calm
<1>2. CASE OnAccept(c)
  BY <1>2, AcceptMoves
<1>3. CASE OnRecv(c)
  BY <1>3, RecvMoves
<1>4. CASE OnRecvEnd(c)
  <2>1. PICK m \in {EndCallback(k), FailCallback(k)} : Become(c, m)
    BY <1>4 DEF OnRecvEnd
  <2>2. Idle /\ k.reading /\ UNCHANGED <<requests, req, ctx, running>>
    BY <1>4 DEF OnRecvEnd
  <2>3. k.handle = "open" /\ req[c].route = "none"
    BY <1>1, <2>2 DEF Sound, Calm
  <2>4. Unharmed(m) /\ ~m.reading /\ m.handle # "none"
    BY <1>1, <2>2, EndCallbackUnharmed
  <2>5. QMoves(c, m, req[c])
    BY <2>1, <2>2, <2>3, <2>4, QuietMoves
  <2> QED
    BY <2>5
<1>5. CASE OnRead(c)
  BY <1>5, ReadMoves
<1>6. CASE OnWritten(c)
  <2> DEFINE m == WriteCallback(k)
  <2>1. /\ Idle /\ c \in clients /\ k.inflight > 0 /\ Become(c, m)
        /\ UNCHANGED <<requests, req, ctx, running>>
    BY <1>6 DEF OnWritten, CanFinishWrite
  <2>2. /\ Unharmed(m) /\ (m.reading => k.reading) /\ m.handle # "none"
        /\ (m.handle = "open" => k.handle = "open") /\ (Usable(k) => Usable(m))
    BY <1>1, <2>1, WriteCallbackUnharmed
  <2> HIDE DEF m
  <2>3. QMoves(c, m, req[c])
    BY <2>1, <2>2, QuietMoves
  <2> QED
    BY <2>3
<1>7. CASE OnTimeout(c)
  BY <1>1, <1>7 DEF OnTimeout, Unharmed
<1>8. CASE OnClose(c)
  <2> DEFINE m == Freed(k)
  <2>1. /\ k.handle \in {"closing", "resetting"} /\ Become(c, m) /\ Idle
        /\ running' = running /\ UNCHANGED <<req, ctx>> /\ requests' = requests \ {c}
    BY <1>8 DEF OnClose, CanRelease, RequestErased
  <2>2. /\ m.handle = "closed" /\ ~m.reading /\ ~m.queued_close /\ ~m.timed /\ ~m.armed
        /\ ~m.reclosed /\ Exact(m)
    BY <1>1, <2>1 DEF Freed, Sound, Conn, Unharmed, Exact
  <2> HIDE DEF m
  <2>3. Unharmed(m) /\ running = {} /\ running' = {}
    BY <2>1, <2>2 DEF Unharmed, Idle
  <2>4. Calm(m, req[c], c \in running')
    BY <1>1, <2>2, <2>3 DEF Calm
  <2>5. /\ req' = [req EXCEPT ![c] = req[c]] /\ conn' = [conn EXCEPT ![c] = m]
        /\ ~Usable(k)
    BY <2>1, SameRequest DEF QInv, DInv, Become, Usable
  <2>6. QMoves(c, m, req[c])
    BY <2>1, <2>3, <2>4, <2>5, ConnMoves
  <2> QED
    BY <2>6
<1> QED
  BY <1>2, <1>3, <1>4, <1>5, <1>6, <1>7, <1>8 DEF ClientStep

----------------------------------------------------------------------------
(* The callbacks of the handler.                                           *)

(* A connection a pending file request belongs to.                         *)
LEMMA ServedClient ==
    ASSUME QInv, NEW x \in Contexts, NEW stage \in NeedsClient, Callback(x, stage)
    PROVE  LET c == ctx[x].client
               k == conn[c]
           IN  /\ c \in Clients /\ Serves(x, c)
               /\ c \in requests /\ requests' = requests
               /\ running = {} /\ running' = {}
               /\ Sound(k) /\ Live(k) /\ Unharmed(k) /\ Usable(k) /\ ~k.reading
               /\ req[c].route # "none" /\ req[c].handled = 1
               /\ req[c].inbox = <<>> /\ req[c].buffer = 0 /\ req[c] \in Req
<1> DEFINE c == ctx[x].client
           k == conn[c]
<1>1. /\ ctx[x].pc \in NeedsClient /\ c \in Clients /\ c \in requests
      /\ requests' = requests /\ running = {} /\ running' = {}
  BY DEF Callback, Idle, QInv
<1>2. Serves(x, c) /\ Usable(k) /\ req[c].route # "none"
  BY <1>1 DEF QInv, Serves
<1>3. Calm(k, req[c], FALSE) /\ Sound(k) /\ req[c] \in Req /\ Live(k)
  BY <1>1, OneCalm DEF Calm
<1>4. k.handle = "open"
  BY <1>2 DEF Usable
<1>5. /\ Unharmed(k) /\ ~k.reading /\ req[c].handled = 1
      /\ req[c].inbox = <<>> /\ req[c].buffer = 0
  BY <1>2, <1>3, <1>4 DEF Calm
<1> QED
  BY <1>1, <1>2, <1>3, <1>5

(* The callback makes its client m, and its context y.                     *)
LEMMA HandlerMoves ==
    ASSUME QInv, NEW x \in Contexts, NEW stage \in NeedsClient, Callback(x, stage),
           NEW m, Become(ctx[x].client, m), Unharmed(m), Live(m), ~m.reading,
           NEW r, req' = [req EXCEPT ![ctx[x].client] = r],
           r.route = req[ctx[x].client].route, r.handled = 1, r.inbox = <<>>,
           r.buffer = 0,
           NEW y, ctx' = [ctx EXCEPT ![x] = y],
           y.pc \in NeedsClient => y.client = ctx[x].client /\ Usable(m)
    PROVE  \E c \in Clients : \E k, q : QMoves(c, k, q)
<1> DEFINE c == ctx[x].client
<1>1. /\ c \in Clients /\ Serves(x, c) /\ c \in requests /\ requests' = requests
      /\ running = {} /\ running' = {} /\ req[c].route # "none"
  BY ServedClient
<1>2. Calm(m, r, c \in running')
  <2>1. m.handle # "none" /\ LineLast(<<>>)
    BY DEF Live, LineLast
  <2> QED
    BY <1>1, <2>1 DEF Calm
<1>3. ctx \in [Contexts -> Ctx]
  BY DEF QInv, DInv, IInv, TypeOK
<1>4. \A z \in Contexts : ctx'[z] = IF z = x THEN y ELSE ctx[z]
  BY <1>3
<1>5. \A z \in Contexts : ctx'[z].pc \in NeedsClient =>
         ctx'[z].client = ctx[z].client /\ ctx[z].pc \in NeedsClient
  BY <1>1, <1>4 DEF Serves
<1>6. \A z \in Contexts \ {x} : ~Serves(z, c)
  BY <1>1 DEF QInv
<1>7. \A z \in Contexts : ctx'[z].pc \in NeedsClient /\ ctx'[z].client = c =>
         Usable(m)
  BY <1>4, <1>6 DEF Serves
<1>8. conn' = [conn EXCEPT ![c] = m] /\ req' = [req EXCEPT ![c] = r]
      /\ r.route # "none"
  BY <1>1 DEF Become
<1> HIDE DEF c
<1>9. QMoves(c, m, r)
  BY <1>1, <1>2, <1>5, <1>7, <1>8 DEF QMoves
<1> QED
  BY <1>1, <1>9

(* ... and leaves the request alone.                                       *)
LEMMA HandlerMovesConn ==
    ASSUME QInv, NEW x \in Contexts, NEW stage \in NeedsClient, Callback(x, stage),
           NEW m, Become(ctx[x].client, m), Unharmed(m), Live(m), ~m.reading,
           UNCHANGED req,
           NEW y, ctx' = [ctx EXCEPT ![x] = y],
           y.pc \in NeedsClient => y.client = ctx[x].client /\ Usable(m)
    PROVE  \E c \in Clients : \E k, q : QMoves(c, k, q)
<1>1. req' = [req EXCEPT ![ctx[x].client] = req[ctx[x].client]]
  BY SameRequest DEF QInv, DInv
<1>2. LET r == req[ctx[x].client]
      IN  r.handled = 1 /\ r.inbox = <<>> /\ r.buffer = 0
  BY ServedClient
<1> QED
  BY <1>1, <1>2, HandlerMoves

LEMMA AnswerMoves ==
    ASSUME QInv, NEW x \in Contexts, NEW stage \in NeedsClient, Callback(x, stage),
           Answer(x), NEW y, ctx' = [ctx EXCEPT ![x] = y], y.pc \notin NeedsClient
    PROVE  \E c \in Clients : \E k, q : QMoves(c, k, q)
<1> DEFINE k == conn[ctx[x].client]
<1>1. Sound(k) /\ Unharmed(k) /\ Usable(k) /\ ~k.reading
  BY ServedClient
<1>2. PICK how \in Hows : Become(ctx[x].client, Reply(k, how)) /\ UNCHANGED req
  BY DEF Answer
<1>3. LET m == Reply(k, how)
      IN  Unharmed(m) /\ Live(m) /\ ~m.reading
  BY <1>1, ReplyUnharmed
<1> QED
  BY <1>2, <1>3, HandlerMovesConn

LEMMA GotoMoves ==
    ASSUME QInv, NEW x \in Contexts, NEW stage \in NeedsClient, Callback(x, stage),
           NEW pc, Goto(x, pc), UNCHANGED <<conn, req>>
    PROVE  \E c \in Clients : \E k, q : QMoves(c, k, q)
<1> DEFINE c == ctx[x].client
           y == [ctx[x] EXCEPT !.pc = pc]
<1>1. /\ Unharmed(conn[c]) /\ Live(conn[c]) /\ ~conn[c].reading /\ Usable(conn[c])
      /\ c \in Clients
  BY ServedClient
<1>2. ctx \in [Contexts -> Ctx] /\ conn \in [Clients -> Conn]
  BY DEF QInv, DInv, IInv, TypeOK, ConnTypeOK
<1>3. Become(c, conn[c])
  BY <1>1, <1>2 DEF Become
<1>4. y.client = c
  BY <1>2 DEF Ctx
<1>5. ctx' = [ctx EXCEPT ![x] = y]
  BY DEF Goto
<1> HIDE DEF y
<1> QED
  BY <1>1, <1>3, <1>4, <1>5, HandlerMovesConn

(* The whole listing: header, listing, close.  It fits one block.          *)
LEMMA ListingMoves ==
    ASSUME QInv, Undisturbed, NEW x \in Contexts, Callback(x, "scan"),
           NEW n \in 1..MaxListing, NEW header \in Hows, NEW listing \in Hows,
           Become(ctx[x].client,
                  Close(Write(Write(conn[ctx[x].client], header), listing))),
           req' = [req EXCEPT ![ctx[x].client].buffer = @ + Kept(n)], Free(x)
    PROVE  \E c \in Clients : \E k, q : QMoves(c, k, q)
<1> DEFINE c == ctx[x].client
           k == conn[c]
           w == Write(k, header)
           v == Write(w, listing)
           m == Close(v)
           b == req[c].buffer + Kept(n)
           r == [req[c] EXCEPT !.buffer = b]
<1>0. "scan" \in NeedsClient
  BY DEF NeedsClient, Stages
<1>1. /\ Sound(k) /\ Unharmed(k) /\ Usable(k) /\ ~k.reading /\ req[c] \in Req
      /\ req[c].handled = 1 /\ req[c].inbox = <<>> /\ req[c].buffer = 0
  BY <1>0, ServedClient
<1>2. Sound(w) /\ Unharmed(w) /\ Usable(w) /\ ~w.reading
  BY <1>1, WriteUsable
<1>3. Become(c, m)
  OBVIOUS
<1> HIDE DEF w
<1>4. Sound(v) /\ Unharmed(v) /\ Usable(v) /\ ~v.reading
  BY <1>2, WriteUsable
<1> HIDE DEF v
<1>5. Unharmed(m) /\ Live(m) /\ ~m.reading
  BY <1>4, CloseUnharmed
<1>6. b = 0
  <2>1. n = 1
    BY DEF Undisturbed
  <2> QED
    BY <1>1, <2>1 DEF Kept
<1>7. req' = [req EXCEPT ![c] = r]
  OBVIOUS
<1> HIDE DEF b, m
<1>8. r.route = req[c].route /\ r.handled = 1 /\ r.inbox = <<>> /\ r.buffer = 0
  BY <1>1, <1>6 DEF Req
<1>9. NoCtx.pc \notin NeedsClient /\ ctx' = [ctx EXCEPT ![x] = NoCtx]
  BY DEF NoCtx, NeedsClient, Stages, Free
<1> HIDE DEF r
<1> QED
  BY <1>0, <1>3, <1>5, <1>7, <1>8, <1>9, HandlerMoves

(* Nothing that QInv speaks of changes, except that a context may be done. *)
Still ==
    /\ UNCHANGED <<conn, req, requests, running>>
    /\ \A y \in Contexts : ctx'[y].pc \in NeedsClient =>
          ctx[y].pc \in NeedsClient /\ ctx'[y].client = ctx[y].client

LEMMA StillInv ==
    ASSUME QInv, DInv', Still
    PROVE  QInv'
<1>1. \A y \in Contexts, c \in Clients :
         ctx'[y].pc \in NeedsClient /\ ctx'[y].client = c => Serves(y, c)
  BY DEF Still, Serves
<1>2. \A c \in Clients : Calm(conn'[c], req'[c], c \in running')
  BY DEF Still, QInv
<1> QED
  BY <1>1, <1>2 DEF Still, QInv, Serves

LEMMA FileStepQuiet ==
    ASSUME QInv, Undisturbed, NEW x \in Contexts, FileStep(x)
    PROVE  Still \/ \E c \in Clients : \E k, q : QMoves(c, k, q)
<1> DEFINE c == ctx[x].client
           k == conn[c]
<1>1. ctx \in [Contexts -> Ctx]
  BY DEF QInv, DInv, IInv, TypeOK
<1>2. {"stat", "open", "read", "scan"} \subseteq NeedsClient
  BY DEF NeedsClient, Stages
<1>3. \A pc : Goto(x, pc) => ctx' = [ctx EXCEPT ![x] = [ctx[x] EXCEPT !.pc = pc]]
  BY DEF Goto
<1>4. [ctx[x] EXCEPT !.pc = "held"].pc \notin NeedsClient
  BY <1>1 DEF NeedsClient, Stages, Ctx
<1>5. ASSUME NEW stage \in NeedsClient, Callback(x, stage), Answer(x), Goto(x, "held")
      PROVE  \E d \in Clients : \E m, q : QMoves(d, m, q)
  BY <1>3, <1>4, <1>5, AnswerMoves
<1>6. CASE HandleOnStat(x)
  BY <1>2, <1>5, <1>6, GotoMoves DEF HandleOnStat
<1>7. ASSUME NEW stage \in NeedsClient, Callback(x, stage), NEW how \in Hows,
             Become(c, Write(k, how)), UNCHANGED req,
             NEW y, ctx' = [ctx EXCEPT ![x] = y], y.client = c
      PROVE  \E d \in Clients : \E m, q : QMoves(d, m, q)
  <2> DEFINE w == Write(k, how)
  <2>1. Sound(k) /\ Unharmed(k) /\ Usable(k) /\ ~k.reading
    BY <1>7, ServedClient
  <2>2. Unharmed(w) /\ Live(w) /\ ~w.reading /\ Usable(w)
    BY <2>1, WriteUsable
  <2> HIDE DEF w
  <2>3. Become(c, w)
    BY <1>7 DEF w
  <2> QED
    BY <1>7, <2>2, <2>3, HandlerMovesConn
<1>8. CASE FileOnOpen(x)
  <2> DEFINE y == [ctx[x] EXCEPT !.pc = "read", !.offset = 0]
  <2>1. CASE Answer(x) /\ Goto(x, "held")
    BY <1>2, <1>5, <1>8, <2>1 DEF FileOnOpen
  <2>2. CASE /\ \E how \in Hows : Become(c, Write(k, how))
             /\ ctx' = [ctx EXCEPT ![x].pc = "read", ![x].offset = 0]
             /\ UNCHANGED req
    <3>1. ctx' = [ctx EXCEPT ![x] = y]
      BY <1>1, <2>2
    <3>2. y.client = c
      BY <1>1 DEF Ctx
    <3> HIDE DEF y
    <3> QED
      BY <1>2, <1>7, <1>8, <2>2, <3>1, <3>2 DEF FileOnOpen
  <2> QED
    BY <1>8, <2>1, <2>2 DEF FileOnOpen
<1>9. CASE FileOnRead(x)
  <2> DEFINE y == [ctx[x] EXCEPT !.offset = @ + 1]
             m == Close(k)
             z == [ctx[x] EXCEPT !.pc = "close"]
  <2>1. Callback(x, "read") /\ UNCHANGED req
    BY <1>9 DEF FileOnRead
  <2>2. CASE Become(c, m) /\ Goto(x, "close")
    <3>1. Sound(k) /\ Unharmed(k) /\ Usable(k) /\ ~k.reading
      BY <1>2, <2>1, ServedClient
    <3>2. Unharmed(m) /\ Live(m) /\ ~m.reading
      BY <3>1, CloseUnharmed
    <3>3. ctx' = [ctx EXCEPT ![x] = z] /\ z.pc \notin NeedsClient
      BY <1>1, <2>2 DEF Goto, NeedsClient, Ctx
    <3> HIDE DEF m, z
    <3> QED
      BY <1>2, <2>1, <2>2, <3>2, <3>3, HandlerMovesConn
  <2>3. CASE /\ \E how \in Hows : Become(c, Write(k, how))
             /\ ctx' = [ctx EXCEPT ![x].offset = @ + 1]
    <3>1. ctx' = [ctx EXCEPT ![x] = y]
      BY <2>3
    <3>2. y.client = c
      BY <1>1 DEF Ctx
    <3> HIDE DEF y
    <3> QED
      BY <1>2, <1>7, <2>1, <2>3, <3>1, <3>2
  <2> QED
    BY <1>9, <2>2, <2>3 DEF FileOnRead
<1>10. CASE FileOnClose(x)
  <2>1. \A y \in Contexts : ctx'[y] = IF y = x THEN [ctx[x] EXCEPT !.pc = "held"]
                                               ELSE ctx[y]
    BY <1>1, <1>10 DEF FileOnClose, Goto
  <2>2. Still
    BY <1>4, <1>10, <2>1 DEF FileOnClose, Still
  <2> QED
    BY <2>2
<1>11. CASE DirOnScan(x)
  <2>1. Callback(x, "scan")
    BY <1>11 DEF DirOnScan
  <2>2. CASE Answer(x) /\ Free(x)
    <3>1. ctx' = [ctx EXCEPT ![x] = NoCtx] /\ NoCtx.pc \notin NeedsClient
      BY <2>2 DEF Free, NoCtx, NeedsClient, Stages
    <3> QED
      BY <1>2, <2>1, <2>2, <3>1, AnswerMoves
  <2>3. CASE Goto(x, "open") /\ UNCHANGED <<conn, req>>
    BY <1>2, <2>1, <2>3, GotoMoves
  <2>4. CASE \E n \in 1..MaxListing, header, listing \in Hows :
                /\ Become(c, Close(Write(Write(k, header), listing)))
                /\ req' = [req EXCEPT ![c].buffer = @ + Kept(n)]
                /\ Free(x)
    BY <2>1, <2>4, ListingMoves
  <2> QED
    BY <1>11, <2>2, <2>3, <2>4 DEF DirOnScan
<1> QED
  BY <1>6, <1>8, <1>9, <1>10, <1>11 DEF FileStep

----------------------------------------------------------------------------
LEMMA QuietInit == Init => QInv
<1> SUFFICES ASSUME Init PROVE QInv
  OBVIOUS
<1>1. \A c \in Clients : conn[c] = NoConn /\ req[c] = NoReq
  BY DEF Init
<1>2. /\ NoConn.handle = "none" /\ ~NoConn.timed /\ ~NoConn.armed
      /\ ~NoConn.reclosed /\ ~NoConn.queued_close /\ Exact(NoConn)
      /\ NoReq.buffer = 0 /\ NoReq.inbox = <<>> /\ NoReq.route = "none"
      /\ NoReq.handled = 0 /\ LineLast(<<>>)
  BY DEF NoConn, NoReq, LineLast, Exact
<1>3. Calm(NoConn, NoReq, FALSE)
  BY <1>2 DEF Calm, Unharmed
<1>4. running = {} /\ \A x \in Contexts : ctx[x].pc \notin NeedsClient
  BY DEF Init, NoCtx, NeedsClient, Stages
<1>5. \A c \in Clients : Calm(conn[c], req[c], c \in running)
  <2> TAKE c \in Clients
  <2>1. conn[c] = NoConn /\ req[c] = NoReq /\ c \notin running
    BY <1>1, <1>4
  <2> QED
    BY <1>3, <2>1 DEF Calm
<1>6. \A x \in Contexts, c \in Clients : ~Serves(x, c)
  BY <1>4 DEF Serves
<1> QED
  BY <1>4, <1>5, <1>6, InitDrained DEF QInv

LEMMA QuietNext ==
    ASSUME QInv, Undisturbed, [Next]_vars
    PROVE  QInv'
<1>1. DInv'
  BY NextDrained DEF QInv
<1>2. CASE UNCHANGED vars
  BY <1>1, <1>2, StillInv DEF vars, Still
<1>3. CASE \E c \in Clients : ClientStep(c)
  BY <1>1, <1>3, ClientStepQuiet, QMovesInv
<1>4. CASE \E x \in Contexts : FileStep(x)
  BY <1>1, <1>4, FileStepQuiet, QMovesInv, StillInv
<1> QED
  BY <1>2, <1>3, <1>4 DEF Next

LEMMA QuietInv == ASSUME Undisturbed PROVE Spec => []QInv
<1>1. QInv /\ [Next]_vars => QInv'
  BY QuietNext
<1> QED
  BY <1>1, QuietInit, PTL DEF Spec

(* A file system callback always finds its client there, open and not yet  *)
(* closed, so every line of filehandler.cpp that uses ctx->client may.     *)
THEOREM ClientOutlives ==
    ASSUME Undisturbed PROVE Spec => []ClientOutlivesRequest
<1>1. QInv => ClientOutlivesRequest
  BY DEF QInv, ClientOutlivesRequest, Serves, Usable
<1> QED
  BY <1>1, QuietInv, PTL

(* The read loop, the peer's end of stream, TLS errors and the handler     *)
(* close a connection, in any order, but never the handle twice.           *)
THEOREM ClosedOnce ==
    ASSUME Undisturbed PROVE Spec => []NeverClosedTwice
<1>1. QInv => NeverClosedTwice
  BY DEF QInv, NeverClosedTwice, Aborted, Calm, Unharmed
<1> QED
  BY <1>1, QuietInv, PTL

(* A connection that is closed without a reset has sent its whole response.*)
THEOREM CloseDelivers ==
    ASSUME Undisturbed PROVE Spec => []GracefulCloseDelivers
<1>1. QInv => GracefulCloseDelivers
  BY DEF QInv, GracefulCloseDelivers, Calm, Unharmed
<1> QED
  BY <1>1, QuietInv, PTL

(* A request is given to a handler once.                                   *)
THEOREM DispatchedOnce ==
    ASSUME Undisturbed PROVE Spec => []HandledOnce
<1>1. ASSUME QInv, NEW c \in Clients PROVE req[c].handled <= 1
  <2>1. req[c].handled = 0 \/ req[c].handled = 1
    BY <1>1, OneCalm DEF Calm
  <2> QED
    BY <2>1
<1>2. QInv => HandledOnce
  BY <1>1 DEF HandledOnce
<1> QED
  BY <1>2, QuietInv, PTL

=============================================================================
