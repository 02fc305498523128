--------------------------- MODULE SSLClientProofs ---------------------------
(***************************************************************************)
(* Lemmas about one connection object, for any program that is built from  *)
(* the operators of SSLClient.  Sound is what every method keeps true of   *)
(* an object; each lemma says, from the leaves up, that a method keeps it, *)
(* what the method does to the handle and to the writes in flight, and     *)
(* which step of Lifecycle (AStep) it makes.                               *)
(***************************************************************************)
EXTENDS SSLClient, TLAPS

Live(k) == k.handle \in {"open", "closing", "resetting"}

Sound(k) ==
    /\ k \in Conn
    /\ k.queued_writes >= k.inflight
    /\ ~k.broken => k.queued_writes = k.inflight
    /\ k.queued_close => k.queued_writes > 0
    /\ k.closing <=> k.handle \notin {"none", "open"}
    /\ ~Live(k) => k.inflight = 0
    /\ k.reading => k.handle = "open" /\ ~k.broken

(* Phase and Pending of an object, before and after a step of Lifecycle.   *)
AStep(k, m) ==
    \/ Phase(m) = Phase(k) /\ Pending(m) = Pending(k)
    \/ /\ Phase(k) \in {"open", "draining"}     \* Queue
       /\ Phase(m) = Phase(k)
       /\ Pending(m) >= Pending(k)
    \/ /\ Phase(k) \in {"open", "draining"}     \* Flush
       /\ Pending(k) > 0
       /\ Pending(m) = Pending(k) - 1
       /\ Phase(m) = IF Phase(k) = "draining" /\ Pending(k) = 1
                       THEN "closing" ELSE Phase(k)
    \/ /\ Phase(k) = "open"                     \* Shut
       /\ Pending(m) >= Pending(k)
       /\ Phase(m) = IF Pending(m) = 0 THEN "closing" ELSE "draining"
    \/ /\ Phase(k) = "draining"                 \* Force
       /\ Phase(m) = "closing"
       /\ Pending(m) = 0
    \/ /\ Phase(k) \in {"absent", "open", "draining"}   \* Abort
       /\ Phase(m) = "cut"
       /\ Pending(m) = 0
    \/ /\ Phase(k) = "absent"                   \* Open
       /\ Phase(m) = "open"
       /\ Pending(m) = Pending(k)
    \/ /\ Phase(k) \in {"closing", "cut"}       \* Release
       /\ Phase(m) = "gone"
       /\ Pending(m) = Pending(k)

(* The part of AStep that writes make, and the part that closes make.      *)
Queues(k, m) ==
    /\ Phase(m) = Phase(k)
    /\ Pending(m) >= Pending(k)
    /\ Phase(k) \notin {"open", "draining"} => Pending(m) = Pending(k)

Closes(k, m) ==
    \/ Phase(m) = Phase(k) /\ Pending(m) = Pending(k)
    \/ /\ Phase(k) = "open"
       /\ Pending(m) >= Pending(k)
       /\ Phase(m) = IF Pending(m) = 0 THEN "closing" ELSE "draining"
    \/ Phase(k) = "draining" /\ Phase(m) = "closing" /\ Pending(m) = 0

----------------------------------------------------------------------------
(* The methods.                                                            *)

LEMMA NewClientSound ==
    ASSUME NEW t \in BOOLEAN
    PROVE  /\ Sound(NewClient(t)) /\ Live(NewClient(t))
           /\ NewClient(t).handle = "open" /\ ~NewClient(t).queued_close
           /\ NewClient(t).queued_writes = 0 /\ ~NewClient(t).broken
<1> DEFINE n == NewClient(t)
<1>1. n \in Conn
  BY DEF NewClient, NoConn, Conn, Handles
<1>2. /\ n.handle = "open" /\ n.inflight = 0 /\ n.queued_writes = 0
      /\ ~n.queued_close /\ ~n.closing /\ ~n.reading /\ ~n.broken
  BY DEF NewClient, NoConn
<1> HIDE DEF n
<1>3. Sound(n) /\ Live(n)
  BY <1>1, <1>2 DEF Sound, Live
<1> QED
  BY <1>2, <1>3 DEF n

LEMMA ListenSound ==
    ASSUME NEW k, Sound(k), Live(k)
    PROVE  /\ Sound(Listen(k)) /\ Live(Listen(k))
           /\ Phase(Listen(k)) = Phase(k) /\ Pending(Listen(k)) = Pending(k)
           /\ Listen(k).inflight = k.inflight
  BY DEF Sound, Live, Listen, Conn, Handles, Phase, Pending

LEMMA StopListeningSound ==
    ASSUME NEW k, Sound(k), Live(k)
    PROVE  /\ Sound(StopListening(k)) /\ Live(StopListening(k))
           /\ Phase(StopListening(k)) = Phase(k)
           /\ Pending(StopListening(k)) = Pending(k)
           /\ StopListening(k).inflight = k.inflight
  BY DEF Sound, Live, StopListening, Conn, Handles, Phase, Pending

LEMMA SetTimeoutSound ==
    ASSUME NEW k, NEW t \in BOOLEAN, Sound(k), Live(k)
    PROVE  /\ Sound(SetTimeout(k, t)) /\ Live(SetTimeout(k, t))
           /\ SetTimeout(k, t).handle = k.handle
           /\ Phase(SetTimeout(k, t)) = Phase(k)
           /\ Pending(SetTimeout(k, t)) = Pending(k)
           /\ SetTimeout(k, t).inflight = k.inflight
  BY DEF Sound, Live, SetTimeout, Conn, Handles, Phase, Pending

LEMMA ResetTimeoutSound ==
    ASSUME NEW k, Sound(k), Live(k)
    PROVE  /\ Sound(ResetTimeout(k)) /\ Live(ResetTimeout(k))
           /\ ResetTimeout(k).handle = k.handle
           /\ ResetTimeout(k).broken = k.broken
           /\ ResetTimeout(k).queued_close = k.queued_close
           /\ Phase(ResetTimeout(k)) = Phase(k)
           /\ Pending(ResetTimeout(k)) = Pending(k)
           /\ ResetTimeout(k).inflight = k.inflight
  BY DEF Sound, Live, ResetTimeout, Conn, Handles, Phase, Pending

LEMMA CloseSound ==
    ASSUME NEW k, Sound(k), Live(k)
    PROVE  /\ Sound(Close(k)) /\ Live(Close(k)) /\ Closes(k, Close(k))
           /\ Close(k).inflight = k.inflight
<1>1. CASE k.queued_writes > 0 /\ ~k.queued_close
  <2>1. Close(k) = [k EXCEPT !.queued_close = TRUE]
    BY <1>1 DEF Close
  <2>2. Sound(Close(k)) /\ Live(Close(k)) /\ Close(k).inflight = k.inflight
    BY <1>1, <2>1 DEF Sound, Live, Conn
  <2>3. Closes(k, Close(k))
    BY <1>1, <2>1 DEF Sound, Live, Conn, Closes, Phase, Pending
  <2> QED
    BY <2>2, <2>3
<1>2. CASE ~(k.queued_writes > 0 /\ ~k.queued_close) /\ k.handle = "open"
  <2>1. Close(k) = [k EXCEPT !.closing = TRUE, !.queued_close = FALSE,
                             !.armed = FALSE, !.handle = "closing",
                             !.reading = FALSE]
    BY <1>2 DEF Close, UvClose, Sound, Conn
  <2>2. Sound(Close(k)) /\ Live(Close(k)) /\ Close(k).inflight = k.inflight
    BY <1>2, <2>1 DEF Sound, Live, Conn, Handles
  <2>3. Phase(Close(k)) = "closing" /\ Pending(Close(k)) = 0
    BY <2>1 DEF Phase, Pending, Sound, Conn
  <2>4. CASE k.queued_close
    <3>1. Phase(k) = "draining"
      BY <1>2, <2>4 DEF Phase
    <3> QED
      BY <2>2, <2>3, <3>1 DEF Closes
  <2>5. CASE ~k.queued_close
    <3>1. Phase(k) = "open" /\ Pending(k) = 0
      BY <1>2, <2>5 DEF Phase, Pending, Sound, Conn
    <3> QED
      BY <2>2, <2>3, <3>1 DEF Closes
  <2> QED
    BY <2>2, <2>4, <2>5
<1>3. CASE ~(k.queued_writes > 0 /\ ~k.queued_close) /\ k.handle # "open"
  <2>1. Close(k) = [k EXCEPT !.closing = TRUE, !.queued_close = FALSE,
                             !.armed = FALSE, !.reclosed = TRUE]
    BY <1>3 DEF Close, UvClose, Sound, Conn
  <2>2. Sound(Close(k)) /\ Live(Close(k)) /\ Close(k).inflight = k.inflight
    BY <1>3, <2>1 DEF Sound, Live, Conn
  <2>3. Phase(Close(k)) = Phase(k) /\ Pending(Close(k)) = Pending(k)
    BY <1>3, <2>1 DEF Phase, Pending, Sound, Live, Conn
  <2> QED
    BY <2>2, <2>3 DEF Closes
<1> QED
  BY <1>1, <1>2, <1>3

LEMMA ClosesIsAStep ==
    ASSUME NEW k, NEW m, Closes(k, m)
    PROVE  AStep(k, m)
  BY DEF Closes, AStep

LEMMA CrashSound ==
    ASSUME NEW k, Sound(k), Live(k)
    PROVE  /\ Sound(Crash(k)) /\ Live(Crash(k)) /\ AStep(k, Crash(k))
           /\ Crash(k).inflight = k.inflight
           /\ k.handle = "open" => Crash(k).handle = "resetting"
  BY DEF Sound, Live, Crash, UvCloseReset, Conn, Handles, Phase, Pending, AStep

(* The count of a write is given back, and a queued close happens exactly  *)
(* when none is left.                                                      *)
LEMMA WriteCallbackSound ==
    ASSUME NEW k, Sound(k), Live(k), k.inflight > 0
    PROVE  /\ Sound(WriteCallback(k)) /\ Live(WriteCallback(k))
           /\ AStep(k, WriteCallback(k))
           /\ WriteCallback(k).inflight = k.inflight - 1
<1> DEFINE i == k.inflight - 1
           n == k.queued_writes - 1
           m == [k EXCEPT !.inflight = i, !.queued_writes = n]
           w == WriteCallback(k)
<1>1. /\ i \in Nat /\ n \in Nat /\ k.queued_writes \in Nat /\ k.inflight \in Nat
      /\ n >= i /\ (~k.broken => n = i) /\ k.queued_writes = n + 1
      /\ Pending(k) \in Nat
  BY DEF Sound, Conn, Pending
<1>2. w = IF m.queued_writes = 0 /\ m.queued_close THEN Close(m) ELSE m
  <2>1. Decrement(k.queued_writes) = n
    BY <1>1 DEF Decrement
  <2> QED
    BY <2>1 DEF WriteCallback, OnSend, Sound, Conn
<1>3. m \in Conn
  BY <1>1 DEF Sound, Conn
<1>4. /\ m.inflight = i /\ m.queued_writes = n /\ m.handle = k.handle
      /\ m.queued_close = k.queued_close /\ m.closing = k.closing
      /\ m.broken = k.broken /\ m.reading = k.reading
  BY DEF Sound, Conn
<1> HIDE DEF m, w, i, n
<1>5. CASE n = 0 /\ k.queued_close
  <2>1. w = UvClose([m EXCEPT !.closing = TRUE, !.queued_close = FALSE,
                              !.armed = FALSE])
    BY <1>2, <1>4, <1>5 DEF Close
  <2>2. CASE k.handle = "open"
    <3>1. w = [m EXCEPT !.closing = TRUE, !.queued_close = FALSE,
                        !.armed = FALSE, !.handle = "closing",
                        !.reading = FALSE]
      BY <1>3, <1>4, <2>1, <2>2 DEF UvClose, Conn
    <3>2. /\ w \in Conn /\ w.handle = "closing" /\ w.inflight = i
          /\ w.queued_writes = n /\ ~w.queued_close /\ w.closing
          /\ w.broken = k.broken /\ ~w.reading
      BY <1>3, <1>4, <3>1 DEF Conn, Handles
    <3>3. Sound(w) /\ Live(w)
      BY <1>1, <3>2 DEF Sound, Live
    <3>4. Phase(w) = "closing" /\ Pending(w) = 0
      BY <3>2 DEF Phase, Pending
    <3>5. Phase(k) = "draining" /\ Pending(k) = 1
      BY <1>1, <1>5, <2>2 DEF Phase, Pending
    <3> QED
      BY <3>2, <3>3, <3>4, <3>5 DEF AStep, w, i
  <2>3. CASE k.handle # "open"
    <3>1. w = [m EXCEPT !.closing = TRUE, !.queued_close = FALSE,
                        !.armed = FALSE, !.reclosed = TRUE]
      BY <1>3, <1>4, <2>1, <2>3 DEF UvClose, Conn
    <3>2. /\ w \in Conn /\ w.handle = k.handle /\ w.inflight = i
          /\ w.queued_writes = n /\ ~w.queued_close /\ w.closing
          /\ w.broken = k.broken /\ w.reading = k.reading
      BY <1>3, <1>4, <3>1 DEF Conn
    <3>3. Sound(w) /\ Live(w)
      BY <1>1, <2>3, <3>2 DEF Sound, Live
    <3>4. Phase(w) = Phase(k) /\ Pending(w) = Pending(k)
      BY <2>3, <3>2 DEF Phase, Pending
    <3> QED
      BY <3>2, <3>3, <3>4 DEF AStep, w, i
  <2> QED
    BY <2>2, <2>3
<1>6. CASE ~(n = 0 /\ k.queued_close)
  <2>1. w = m
    BY <1>2, <1>4, <1>6
  <2>2. Sound(w) /\ Live(w)
    BY <1>1, <1>3, <1>4, <1>6, <2>1 DEF Sound, Live
  <2>3. Phase(w) = Phase(k)
    BY <1>4, <2>1 DEF Phase
  <2>4. CASE k.handle = "open"
    <3>1. Pending(w) = Pending(k) - 1 /\ Pending(k) > 0
      BY <1>1, <1>4, <2>1, <2>4 DEF Pending
    <3>2. ~(Phase(k) = "draining" /\ Pending(k) = 1)
      BY <1>1, <1>6, <2>4 DEF Phase, Pending
    <3>3. Phase(k) \in {"open", "draining"}
      BY <2>4 DEF Phase
    <3> QED
      BY <1>4, <2>1, <2>2, <2>3, <3>1, <3>2, <3>3 DEF AStep, w, i
  <2>5. CASE k.handle # "open"
    <3>1. Pending(w) = Pending(k)
      BY <1>4, <2>1, <2>5 DEF Pending
    <3> QED
      BY <1>4, <2>1, <2>2, <2>3, <3>1 DEF AStep, w, i
  <2> QED
    BY <2>4, <2>5
<1> QED
  BY <1>5, <1>6

(* A write made at once leaves the counts as they were, one left in flight *)
(* raises both, and a refused one only queued_writes.                      *)
LEMMA SendSound ==
    ASSUME NEW k, NEW how \in Hows, Sound(k), k.handle = "open"
    PROVE  /\ Sound(Send(k, how)) /\ Send(k, how).handle = "open"
           /\ Pending(Send(k, how)) >= Pending(k)
           /\ Send(k, how).queued_close = k.queued_close
           /\ Send(k, how).inflight >= k.inflight
           /\ Send(k, how).reclosed = k.reclosed
           /\ Send(k, how).broken = k.broken
<1> DEFINE r == ResetTimeout(k)
           q == r.queued_writes
           n == [r EXCEPT !.queued_writes = @ + 1]
           s == Send(k, how)
<1>1. /\ Sound(r) /\ r.handle = "open" /\ r.queued_close = k.queued_close
      /\ r.inflight = k.inflight /\ r.reclosed = k.reclosed
      /\ r.broken = k.broken /\ r \in Conn /\ Pending(r) = Pending(k)
  BY ResetTimeoutSound DEF ResetTimeout, Sound, Live, Conn
<1>2. s = IF k.broken THEN n
          ELSE IF how = "sync" THEN OnSend(n)
          ELSE [n EXCEPT !.inflight = @ + 1]
  BY DEF Send
<1> HIDE DEF r, s
<1>3. /\ q \in Nat /\ r.inflight \in Nat /\ q >= r.inflight
      /\ (~r.broken => q = r.inflight) /\ (r.queued_close => q # 0)
  BY <1>1 DEF Sound, Conn
<1>4. \E a \in {q, q + 1}, b \in {r.inflight, r.inflight + 1} :
         /\ s = [r EXCEPT !.queued_writes = a, !.inflight = b]
         /\ a >= b /\ (~r.broken => a = b)
  <2>1. CASE k.broken
    <3>1. s = [r EXCEPT !.queued_writes = q + 1, !.inflight = r.inflight]
      BY <1>1, <1>2, <2>1 DEF Conn
    <3> QED
      BY <1>1, <1>3, <2>1, <3>1
  <2>2. CASE ~k.broken /\ how = "sync"
    <3>1. Decrement(q + 1) = q
      BY <1>3 DEF Decrement
    <3>2. s = [r EXCEPT !.queued_writes = q]
      BY <1>1, <1>2, <1>3, <2>2, <3>1 DEF OnSend, Conn
    <3>3. s = [r EXCEPT !.queued_writes = q, !.inflight = r.inflight]
      BY <1>1, <3>2 DEF Conn
    <3> QED
      BY <1>3, <3>3
  <2>3. CASE ~k.broken /\ how = "async"
    <3>1. s = [r EXCEPT !.queued_writes = q + 1, !.inflight = r.inflight + 1]
      BY <1>1, <1>2, <2>3 DEF Conn
    <3> QED
      BY <1>3, <3>1
  <2> QED
    BY <2>1, <2>2, <2>3 DEF Hows
<1>5. PICK a \in {q, q + 1}, b \in {r.inflight, r.inflight + 1} :
         /\ s = [r EXCEPT !.queued_writes = a, !.inflight = b]
         /\ a >= b /\ (~r.broken => a = b)
  BY <1>4
<1>6. a \in Nat /\ b \in Nat /\ a >= q /\ b >= r.inflight
  BY <1>3
<1>7. /\ s \in Conn /\ s.handle = "open" /\ s.reading = r.reading
      /\ s.queued_writes = a /\ s.inflight = b /\ s.broken = r.broken
      /\ s.queued_close = r.queued_close /\ s.closing = r.closing
      /\ s.reclosed = r.reclosed
  BY <1>1, <1>5, <1>6 DEF Conn
<1>8. Sound(s)
  BY <1>1, <1>3, <1>5, <1>6, <1>7 DEF Sound, Live
<1>9. Pending(s) >= Pending(r)
  BY <1>1, <1>6, <1>7 DEF Pending
<1> QED
  BY <1>1, <1>6, <1>7, <1>8, <1>9 DEF s

LEMMA WriteSound ==
    ASSUME NEW k, NEW how \in Hows, Sound(k), Live(k)
    PROVE  /\ Sound(Write(k, how)) /\ Live(Write(k, how))
           /\ Write(k, how).handle = k.handle
           /\ Write(k, how).queued_close = k.queued_close
           /\ Write(k, how).reclosed = k.reclosed
           /\ Write(k, how).broken = k.broken
           /\ Queues(k, Write(k, how))
           /\ Write(k, how).inflight >= k.inflight
           /\ k.closing => Write(k, how).inflight = k.inflight
<1> DEFINE w == Write(k, how)
<1>1. /\ Sound(w) /\ Live(w) /\ w.handle = k.handle
      /\ w.queued_close = k.queued_close /\ w.reclosed = k.reclosed
      /\ w.broken = k.broken /\ w.inflight >= k.inflight
      /\ Pending(w) >= Pending(k)
      /\ k.closing => w.inflight = k.inflight
  <2>1. CASE IsOpen(k)
    BY <2>1, SendSound DEF Write, IsOpen, Sound, Live
  <2>2. CASE ~IsOpen(k)
    BY <2>2 DEF Write, Sound, Conn, Pending
  <2> QED
    BY <2>1, <2>2
<1> HIDE DEF w
<1>2. Queues(k, w)
  BY <1>1 DEF Queues, Phase, Pending
<1> QED
  BY <1>1, <1>2 DEF w

LEMMA QueuesIsAStep ==
    ASSUME NEW k, NEW m, Queues(k, m)
    PROVE  AStep(k, m)
  BY DEF Queues, AStep

(* What a callback writes before it closes or crashes belongs to its step. *)
LEMMA QueuesThenCloses ==
    ASSUME NEW k, NEW l, NEW m, Queues(k, l), Closes(l, m),
           Pending(k) \in Nat, Pending(l) \in Nat, Pending(m) \in Nat
    PROVE  AStep(k, m)
  BY DEF Queues, Closes, AStep

LEMMA QueuesThenCrash ==
    ASSUME NEW k, NEW l, Queues(k, l), Sound(l), Live(l)
    PROVE  AStep(k, Crash(l))
<1> DEFINE m == Crash(l)
<1>1. CASE l.handle = "open"
  <2>1. m.handle = "resetting" /\ Phase(l) \in {"open", "draining"}
    BY <1>1, CrashSound DEF Phase
  <2>2. Phase(m) = "cut" /\ Pending(m) = 0
    BY <2>1 DEF Phase, Pending
  <2> QED
    BY <2>1, <2>2 DEF Queues, AStep
<1>2. CASE l.handle # "open"
  <2>1. m.handle = l.handle
    BY <1>2 DEF Crash, UvCloseReset, Sound, Conn
  <2>2. Phase(m) = Phase(l) /\ Pending(m) = 0 /\ Pending(l) = 0
    BY <1>2, <2>1 DEF Phase, Pending
  <2>3. Phase(l) \notin {"open", "draining"}
    BY <1>2 DEF Phase, Live
  <2> QED
    BY <2>2, <2>3 DEF Queues, AStep
<1> QED
  BY <1>1, <1>2

LEMMA QueuesTransitive ==
    ASSUME NEW k, NEW l, NEW m, Queues(k, l), Queues(l, m),
           Pending(k) \in Nat, Pending(l) \in Nat, Pending(m) \in Nat
    PROVE  Queues(k, m)
  BY DEF Queues

LEMMA PendingType ==
    ASSUME NEW k, Sound(k)
    PROVE  Pending(k) \in Nat
  BY DEF Pending, Sound, Conn

----------------------------------------------------------------------------
(* The callbacks that compose methods.                                     *)

LEMMA AStepAfterSame ==
    ASSUME NEW k, NEW l, NEW m, AStep(l, m),
           Phase(l) = Phase(k), Pending(l) = Pending(k)
    PROVE  AStep(k, m)
  BY DEF AStep

LEMMA EndCallbackSound ==
    ASSUME NEW k, Sound(k), Live(k)
    PROVE  /\ Sound(EndCallback(k)) /\ Live(EndCallback(k))
           /\ AStep(k, EndCallback(k)) /\ EndCallback(k).inflight = k.inflight
<1> DEFINE l == StopListening(k)
<1>1. EndCallback(k) = Close(l)
  BY DEF EndCallback, StopListening
<1>2. /\ Sound(l) /\ Live(l) /\ l.inflight = k.inflight
      /\ Phase(l) = Phase(k) /\ Pending(l) = Pending(k)
  BY StopListeningSound
<1> HIDE DEF l
<1> QED
  BY <1>1, <1>2, CloseSound, ClosesIsAStep, AStepAfterSame

LEMMA FailCallbackSound ==
    ASSUME NEW k, Sound(k), Live(k)
    PROVE  /\ Sound(FailCallback(k)) /\ Live(FailCallback(k))
           /\ AStep(k, FailCallback(k)) /\ FailCallback(k).inflight = k.inflight
<1> DEFINE l == [k EXCEPT !.broken = TRUE, !.reading = FALSE]
<1>1. FailCallback(k) = Close(l)
  BY DEF FailCallback, EndCallback, Sound, Conn
<1>2. /\ Sound(l) /\ Live(l) /\ l.inflight = k.inflight
      /\ Phase(l) = Phase(k) /\ Pending(l) = Pending(k)
  BY DEF Sound, Live, Conn, Phase, Pending
<1> HIDE DEF l
<1> QED
  BY <1>1, <1>2, CloseSound, ClosesIsAStep, AStepAfterSame

LEMMA TimerCallbackSound ==
    ASSUME NEW k, Sound(k), Live(k)
    PROVE  /\ Sound(TimerCallback(k)) /\ Live(TimerCallback(k))
           /\ AStep(k, TimerCallback(k))
           /\ TimerCallback(k).inflight = k.inflight
<1> DEFINE l == [k EXCEPT !.armed = FALSE]
<1>1. TimerCallback(k) = Crash(l)
  BY DEF TimerCallback
<1>2. /\ Sound(l) /\ Live(l) /\ l.inflight = k.inflight
      /\ Phase(l) = Phase(k) /\ Pending(l) = Pending(k)
  BY DEF Sound, Live, Conn, Phase, Pending
<1> HIDE DEF l
<1> QED
  BY <1>1, <1>2, CrashSound, AStepAfterSame

LEMMA FreedSound ==
    ASSUME NEW k, Sound(k), k.handle \in {"closing", "resetting"},
           k.inflight = 0
    PROVE  /\ Sound(Freed(k)) /\ ~Live(Freed(k)) /\ AStep(k, Freed(k))
           /\ Freed(k).inflight = k.inflight
<1> DEFINE f == Freed(k)
<1>1. /\ f \in Conn /\ f.handle = "closed" /\ f.inflight = 0 /\ f.closing
      /\ f.reading = k.reading /\ f.broken = k.broken
      /\ f.queued_writes = k.queued_writes /\ f.queued_close = k.queued_close
  BY DEF Freed, Sound, Conn, Handles
<1>2. /\ ~k.reading /\ k.queued_writes >= 0
      /\ (k.queued_close => k.queued_writes > 0)
      /\ (~k.broken => k.queued_writes = 0)
  BY DEF Sound, Conn
<1> HIDE DEF f
<1>3. Sound(f) /\ ~Live(f)
  BY <1>1, <1>2 DEF Sound, Live
<1>4. Phase(k) \in {"closing", "cut"} /\ Pending(k) = 0
  BY DEF Phase, Pending
<1>5. Phase(f) = "gone" /\ Pending(f) = 0
  BY <1>1 DEF Phase, Pending
<1> QED
  BY <1>1, <1>3, <1>4, <1>5 DEF AStep, f

----------------------------------------------------------------------------
(* One object that moves along AStep while the others rest is a step of    *)
(* Lifecycle for the mapped phase and pending, or a stutter.               *)
LEMMA AStepIsPromised ==
    ASSUME NEW c \in Clients, NEW m, conn \in [Clients -> Conn],
           conn' = [conn EXCEPT ![c] = m], Sound(conn[c]), Sound(m),
           AStep(conn[c], m)
    PROVE  [Promise!Next]_(Promise!vars)
<1> DEFINE ph == [d \in Clients |-> Phase(conn[d])]
           pe == [d \in Clients |-> Pending(conn[d])]
           k == conn[c]
<1>1. \A d \in Clients : conn'[d] = IF d = c THEN m ELSE conn[d]
  OBVIOUS
<1>2. /\ ph' = [ph EXCEPT ![c] = Phase(m)]
      /\ pe' = [pe EXCEPT ![c] = Pending(m)]
      /\ ph[c] = Phase(k) /\ pe[c] = Pending(k)
      /\ ph'[c] = Phase(m) /\ pe'[c] = Pending(m)
  BY <1>1
<1>3. Pending(k) \in Nat /\ Pending(m) \in Nat /\ AStep(k, m)
  BY PendingType
<1>4. /\ (Phase(m) = Phase(k) => ph' = ph)
      /\ (Pending(m) = Pending(k) => pe' = pe)
  BY <1>2
<1>5. CASE ph' = ph /\ pe' = pe
  BY <1>5 DEF Promise!vars
<1>6. CASE /\ Phase(k) \in {"open", "draining"}
           /\ Phase(m) = Phase(k)
           /\ Pending(m) >= Pending(k)
  <2>1. Promise!Queue(c)
    BY <1>2, <1>3, <1>4, <1>6 DEF Promise!Queue, Promise!QueueUpTo
  <2> QED
    BY <2>1 DEF Promise!Next, Promise!Step
<1>7. CASE /\ Phase(k) \in {"open", "draining"}
           /\ Pending(k) > 0
           /\ Pending(m) = Pending(k) - 1
           /\ Phase(m) = IF Phase(k) = "draining" /\ Pending(k) = 1
                           THEN "closing" ELSE Phase(k)
  <2>1. Promise!Flush(c)
    BY <1>2, <1>3, <1>4, <1>7 DEF Promise!Flush, Promise!Become
  <2> QED
    BY <2>1 DEF Promise!Next, Promise!Step
<1>8. CASE /\ Phase(k) = "open"
           /\ Pending(m) >= Pending(k)
           /\ Phase(m) = IF Pending(m) = 0 THEN "closing" ELSE "draining"
  <2>1. Promise!Shut(c)
    BY <1>2, <1>3, <1>8 DEF Promise!Shut, Promise!QueueUpTo, Promise!Become
  <2> QED
    BY <2>1 DEF Promise!Next, Promise!Step
<1>9. CASE Phase(k) = "draining" /\ Phase(m) = "closing" /\ Pending(m) = 0
  <2>1. Promise!Force(c)
    BY <1>2, <1>9 DEF Promise!Force, Promise!Become, Promise!DropPending
  <2> QED
    BY <2>1 DEF Promise!Next, Promise!Step
<1>10. CASE /\ Phase(k) \in {"absent", "open", "draining"}
            /\ Phase(m) = "cut"
            /\ Pending(m) = 0
  <2>1. Promise!Abort(c)
    BY <1>2, <1>10 DEF Promise!Abort, Promise!Become, Promise!DropPending
  <2> QED
    BY <2>1 DEF Promise!Next, Promise!Step
<1>11. CASE Phase(k) = "absent" /\ Phase(m) = "open" /\ Pending(m) = Pending(k)
  <2>1. Promise!Open(c)
    BY <1>2, <1>4, <1>11 DEF Promise!Open, Promise!Become
  <2> QED
    BY <2>1 DEF Promise!Next, Promise!Step
<1>12. CASE /\ Phase(k) \in {"closing", "cut"}
            /\ Phase(m) = "gone"
            /\ Pending(m) = Pending(k)
  <2>1. Promise!Release(c)
    BY <1>2, <1>4, <1>12 DEF Promise!Release, Promise!Become
  <2> QED
    BY <2>1 DEF Promise!Next, Promise!Step
<1> QED
  BY <1>3, <1>4, <1>5, <1>6, <1>7, <1>8, <1>9, <1>10, <1>11, <1>12 DEF AStep

=============================================================================
