--------------------------- MODULE SSLServerProofs ---------------------------
(***************************************************************************)
(* What holds of SSLServer for any number of connections and any context.  *)
(* The inductive invariant IInv says that every object is Sound and that   *)
(* `clients` holds exactly the objects whose handle lives.  Every step     *)
(* replaces one object by a Sound one, along a step of Lifecycle.          *)
(***************************************************************************)
EXTENDS SSLServer, SSLClientProofs

LEMMA AcceptedSound ==
    ASSUME NEW k, k = NoConn, NEW t \in BOOLEAN, NEW m \in Accepted(NewClient(t))
    PROVE  /\ Sound(m) /\ Live(m) /\ AStep(k, m) /\ ~k.closing
<1> DEFINE n == NewClient(t)
<1>1. Sound(n) /\ Live(n) /\ n.handle = "open" /\ ~n.queued_close
      /\ n.queued_writes = 0 /\ ~n.broken
  BY NewClientSound
<1>2. Phase(k) = "absent" /\ Pending(k) = 0 /\ ~k.closing
  BY DEF NoConn, Phase, Pending
<1> HIDE DEF n
<1>3. CASE m = Listen(n)
  <2>1. /\ Sound(m) /\ Live(m) /\ Phase(m) = Phase(n) /\ Pending(m) = Pending(n)
    BY <1>1, <1>3, ListenSound
  <2>2. Phase(m) = "open" /\ Pending(m) = 0
    BY <1>1, <2>1 DEF Phase, Pending
  <2> QED
    BY <1>2, <2>1, <2>2 DEF AStep
<1>4. CASE m = Crash(n)
  <2>1. Sound(m) /\ Live(m) /\ m.handle = "resetting"
    BY <1>1, <1>4, CrashSound
  <2>2. Phase(m) = "cut" /\ Pending(m) = 0
    BY <2>1 DEF Phase, Pending
  <2> QED
    BY <1>2, <2>1, <2>2 DEF AStep
<1> QED
  BY <1>2, <1>3, <1>4 DEF Accepted, n

----------------------------------------------------------------------------
(* The inductive invariant.  An object whose handle was never created is   *)
(* still NoConn, so that accepting it starts from a known state.           *)
IInv ==
    /\ clients \in SUBSET Clients
    /\ conn \in [Clients -> Conn]
    /\ \A c \in Clients : Sound(conn[c])
    /\ \A c \in Clients : c \in clients <=> Live(conn[c])
    /\ \A c \in Clients : conn[c].handle = "none" => conn[c] = NoConn

LEMMA InitInv == Init => IInv
<1> SUFFICES ASSUME Init PROVE IInv
  OBVIOUS
<1>1. NoConn \in Conn /\ Sound(NoConn) /\ ~Live(NoConn)
  BY DEF NoConn, Conn, Handles, Sound, Live
<1>2. \A c \in Clients : conn[c] = NoConn
  BY DEF Init
<1> QED
  BY <1>1, <1>2 DEF Init, IInv

(* Every step replaces one object by a Sound one, along a step of Lifecycle*)
(* and without a write for a closing object.                               *)
Moves(c, m) ==
    /\ conn' = [conn EXCEPT ![c] = m]
    /\ clients' = IF Live(m) THEN clients \cup {c} ELSE clients \ {c}
    /\ Sound(m)
    /\ m.handle # "none"
    /\ AStep(conn[c], m)
    /\ conn[c].closing => m.inflight <= conn[c].inflight

(* A live object that stays alive: the shape of every step but the first   *)
(* and the last of an object.                                              *)
LEMMA LiveMoves ==
    ASSUME IInv, NEW c \in clients, NEW m, Become(c, m), UNCHANGED clients,
           Sound(m), Live(m), AStep(conn[c], m),
           conn[c].closing => m.inflight <= conn[c].inflight
    PROVE  Moves(c, m)
  BY DEF Moves, Become, Live

LEMMA StepMoves ==
    ASSUME IInv, NEW c \in Clients, Step(c)
    PROVE  \E m : Moves(c, m)
<1> DEFINE k == conn[c]
<1>1. /\ Sound(k) /\ (c \in clients <=> Live(k)) /\ clients \in SUBSET Clients
      /\ k.inflight \in Nat /\ (k.handle = "none" => k = NoConn)
  BY DEF IInv, Sound, Conn
<1>2. CASE OnAccept(c)
  <2>1. PICK t \in GarbageTimeout : \E m \in Accepted(NewClient(t)) : Become(c, m)
    BY <1>2 DEF OnAccept
  <2>2. PICK m \in Accepted(NewClient(t)) : Become(c, m)
    BY <2>1
  <2>3. Sound(m) /\ Live(m) /\ AStep(k, m) /\ ~k.closing
    BY <1>1, <1>2, AcceptedSound, ClientAssumption DEF OnAccept
  <2> QED
    BY <1>2, <2>2, <2>3 DEF OnAccept, Moves, Become, Live
<1>3. CASE OnRecv(c)
  <2>1. k.handle = "open" /\ Live(k)
    BY <1>1, <1>3 DEF OnRecv, Sound, Live
  <2>2. AStep(k, ResetTimeout(k))
    BY <1>1, <2>1, ResetTimeoutSound DEF AStep
  <2> QED
    BY <1>1, <1>3, <2>1, <2>2, ResetTimeoutSound, LiveMoves DEF OnRecv
<1>4. CASE OnRecvEnd(c)
  BY <1>1, <1>4, EndCallbackSound, FailCallbackSound, LiveMoves DEF OnRecvEnd
<1>5. CASE OnWritten(c)
  <2>1. c \in clients /\ k.inflight > 0
    BY <1>5 DEF OnWritten, CanFinishWrite
  <2>2. /\ Sound(WriteCallback(k)) /\ Live(WriteCallback(k))
        /\ AStep(k, WriteCallback(k)) /\ WriteCallback(k).inflight <= k.inflight
    BY <1>1, <2>1, WriteCallbackSound
  <2> QED
    BY <1>5, <2>1, <2>2, LiveMoves DEF OnWritten
<1>6. CASE OnTimeout(c)
  BY <1>1, <1>6, TimerCallbackSound, LiveMoves DEF OnTimeout
<1>7. CASE OnClose(c)
  <2>1. /\ k.handle \in {"closing", "resetting"} /\ k.inflight = 0
        /\ Become(c, Freed(k)) /\ clients' = clients \ {c}
    BY <1>7 DEF OnClose, CanRelease
  <2>2. /\ Sound(Freed(k)) /\ ~Live(Freed(k)) /\ AStep(k, Freed(k))
        /\ Freed(k).inflight <= k.inflight
    BY <1>1, <2>1, FreedSound
  <2>3. Freed(k).handle # "none"
    BY <1>1 DEF Freed, Sound, Conn
  <2> QED
    BY <2>1, <2>2, <2>3 DEF Moves, Become
<1>8. CASE CtxWrite(c)
  <2>1. PICK how \in Hows : Become(c, Write(k, how))
    BY <1>8 DEF CtxWrite
  <2>2. c \in clients /\ UNCHANGED clients
    BY <1>8 DEF CtxWrite
  <2>3. /\ Sound(Write(k, how)) /\ Live(Write(k, how)) /\ AStep(k, Write(k, how))
        /\ k.closing => Write(k, how).inflight <= k.inflight
    BY <1>1, <2>2, WriteSound, QueuesIsAStep
  <2> QED
    BY <2>1, <2>2, <2>3, LiveMoves
<1>9. CASE CtxClose(c)
  BY <1>1, <1>9, CloseSound, ClosesIsAStep, LiveMoves DEF CtxClose
<1>10. CASE CtxCrash(c)
  BY <1>1, <1>10, CrashSound, LiveMoves DEF CtxCrash
<1>11. CASE CtxSetTimeout(c)
  <2>1. PICK t \in BOOLEAN : Become(c, SetTimeout(k, t))
    BY <1>11 DEF CtxSetTimeout
  <2>2. c \in clients /\ UNCHANGED clients
    BY <1>11 DEF CtxSetTimeout
  <2>3. /\ Sound(SetTimeout(k, t)) /\ Live(SetTimeout(k, t))
        /\ AStep(k, SetTimeout(k, t)) /\ SetTimeout(k, t).inflight <= k.inflight
    BY <1>1, <2>2, SetTimeoutSound DEF AStep
  <2> QED
    BY <2>1, <2>2, <2>3, LiveMoves
<1>12. CASE CtxResetTimeout(c)
  <2>1. AStep(k, ResetTimeout(k)) /\ ResetTimeout(k).inflight <= k.inflight
    BY <1>1, <1>12, ResetTimeoutSound DEF AStep, CtxResetTimeout
  <2> QED
    BY <1>1, <1>12, <2>1, ResetTimeoutSound, LiveMoves DEF CtxResetTimeout
<1>13. CASE CtxListen(c)
  <2>1. AStep(k, Listen(k)) /\ Listen(k).inflight <= k.inflight
    BY <1>1, <1>13, ListenSound DEF AStep, CtxListen
  <2> QED
    BY <1>1, <1>13, <2>1, ListenSound, LiveMoves DEF CtxListen
<1>14. CASE CtxStopListening(c)
  <2>1. AStep(k, StopListening(k)) /\ StopListening(k).inflight <= k.inflight
    BY <1>1, <1>14, StopListeningSound DEF AStep, CtxStopListening
  <2> QED
    BY <1>1, <1>14, <2>1, StopListeningSound, LiveMoves DEF CtxStopListening
<1> QED
  BY <1>2, <1>3, <1>4, <1>5, <1>6, <1>7, <1>8, <1>9, <1>10, <1>11, <1>12, <1>13,
     <1>14 DEF Step

LEMMA MovesInv ==
    ASSUME IInv, NEW c \in Clients, NEW m, Moves(c, m)
    PROVE  IInv'
<1>1. m \in Conn /\ Sound(m) /\ m.handle # "none"
  BY DEF Moves, Sound
<1>2. /\ conn' \in [Clients -> Conn]
      /\ \A d \in Clients : conn'[d] = IF d = c THEN m ELSE conn[d]
  BY <1>1 DEF Moves, IInv
<1>3. \A d \in Clients : d \in clients' <=> Live(conn'[d])
  BY <1>2 DEF Moves, IInv
<1> QED
  BY <1>1, <1>2, <1>3 DEF Moves, IInv

LEMMA NextInv == IInv /\ [Next]_vars => IInv'
<1> SUFFICES ASSUME IInv, [Next]_vars PROVE IInv'
  OBVIOUS
<1>1. CASE Next
  <2>1. PICK c \in Clients : Step(c)
    BY <1>1 DEF Next
  <2> QED
    BY <2>1, StepMoves, MovesInv
<1>2. CASE UNCHANGED vars
  BY <1>2 DEF vars, connVars, IInv
<1> QED
  BY <1>1, <1>2

(* The invariant implies each of the properties the runs check.            *)
LEMMA InvImplies ==
    IInv => TypeOK /\ WritesAccounted /\ IsOpenAgrees
<1> SUFFICES ASSUME IInv PROVE TypeOK /\ WritesAccounted /\ IsOpenAgrees
  OBVIOUS
<1>1. TypeOK
  BY DEF IInv, TypeOK, ConnTypeOK
<1>2. WritesAccounted
  BY DEF IInv, Sound, WritesAccounted
<1>3. IsOpenAgrees
  BY DEF IInv, Sound, Live, IsOpenAgrees, IsOpen
<1> QED
  BY <1>1, <1>2, <1>3

LEMMA SpecInv == Spec => []IInv
<1> QED
  BY InitInv, NextInv, PTL DEF Spec

----------------------------------------------------------------------------
(* Every reachable value of the variables has its type.                    *)
THEOREM TypeCorrect == Spec => []TypeOK
<1> QED
  BY SpecInv, InvImplies, PTL

(* No unfinished write goes uncounted, also when libuv refuses others, and *)
(* until a read fails the count is exact and a queued close has a write to *)
(* wait for.                                                               *)
THEOREM AccountsForWrites == Spec => []WritesAccounted
<1> QED
  BY SpecInv, InvImplies, PTL

(* is_open() tells the state of the libuv handle of every live object.     *)
THEOREM OpenFlagIsRight == Spec => []IsOpenAgrees
<1> QED
  BY SpecInv, InvImplies, PTL

(* No write is handed to libuv for an object that is closing.              *)
THEOREM ClosingWritesNothing == Spec => NoWriteAfterClose
<1>1. ASSUME IInv, [Next]_vars
      PROVE  [\A c \in Clients :
                 conn[c].closing => conn'[c].inflight <= conn[c].inflight]_vars
  <2>1. CASE UNCHANGED vars
    BY <2>1
  <2>2. CASE Next
    <3>1. PICK c \in Clients : Step(c)
      BY <2>2 DEF Next
    <3>2. PICK m : Moves(c, m)
      BY <1>1, <3>1, StepMoves
    <3>3. \A d \in Clients : conn'[d] = IF d = c THEN m ELSE conn[d]
      BY <1>1, <3>2 DEF Moves, IInv
    <3>4. \A d \in Clients : conn[d].inflight \in Nat
      BY <1>1 DEF IInv, Conn
    <3>5. \A d \in Clients :
             conn[d].closing => conn'[d].inflight <= conn[d].inflight
      BY <3>2, <3>3, <3>4 DEF Moves
    <3> QED
      BY <3>5
  <2> QED
    BY <1>1, <2>1, <2>2
<1> QED
  BY <1>1, SpecInv, PTL DEF Spec, NoWriteAfterClose

(* SSLServer implements Lifecycle, whatever its context does.              *)
THEOREM KeepsPromise == Spec => LifecycleSpec
<1>1. Init => Promise!Init
  BY DEF Init, Promise!Init, NoConn, Phase, Pending
<1>2. IInv /\ [Next]_vars => [Promise!Next]_(Promise!vars)
  <2> SUFFICES ASSUME IInv, [Next]_vars PROVE [Promise!Next]_(Promise!vars)
    OBVIOUS
  <2>1. CASE Next
    <3>1. PICK c \in Clients : Step(c)
      BY <2>1 DEF Next
    <3>2. PICK m : Moves(c, m)
      BY <3>1, StepMoves
    <3> QED
      BY <3>2, AStepIsPromised DEF Moves, IInv
  <2>2. CASE UNCHANGED vars
    BY <2>2 DEF vars, connVars, Promise!vars
  <2> QED
    BY <2>1, <2>2
<1> QED
  BY <1>1, <1>2, SpecInv, PTL DEF Spec, LifecycleSpec, Promise!Spec

=============================================================================
