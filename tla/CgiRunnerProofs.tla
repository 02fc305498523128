--------------------------- MODULE CgiRunnerProofs ---------------------------
(***************************************************************************)
(* Theorems about CgiRunner, for any number of connections and any amount  *)
(* of output: what needs that no request outlasts its timer (~SlowScripts) *)
(* and what does not.                                                      *)
(***************************************************************************)
EXTENDS CgiRunner, SSLClientProofs, TLAPS

(* A connection that was closed once, or not yet.                          *)
Fit(k) ==
    /\ Sound(k)
    /\ ~k.reclosed
    /\ k.queued_close => k.handle = "open"

(* ... that the runner may still use.                                      *)
Usable(k) == k.handle = "open" /\ ~k.queued_close

(* How the runner r, its Executor e and its connection k hang together.    *)
Unused(r, e) == r.response = "none" /\ e = NoExec

Working(r, e) ==
    /\ r.response = "open" /\ r.write_end
    /\ e.child \in {"running", "exited"} /\ e.data /\ e.alive

Over(r, e) ==
    /\ r.response \in {"closing", "gone"}
    /\ e.child \in {"none", "reported"} /\ ~e.alive

Related(r, e, k) ==
    /\ ~r.reclosed
    /\ r.pc = "none" => Unused(r, e) /\ k.handle = "none"
    /\ r.pc = "handled" => Unused(r, e) /\ Usable(k)
    /\ r.pc = "run" => Over(r, e) \/ (Working(r, e) /\ Usable(k))

(* The inductive invariant.  That the write end stays open belongs to it:  *)
(* else the end of the pipe could be read beside the exit.                 *)
IInv ==
    /\ TypeOK
    /\ \A c \in Clients :
          /\ Fit(conn[c])
          /\ Related(runner[c], exec[c], conn[c])
          /\ c \in clients <=> Live(conn[c])

USE ClientAssumption, RunnerAssumption

----------------------------------------------------------------------------
(* What the methods of the connection leave.                               *)

LEMMA WriteFit ==
    ASSUME NEW k, NEW how \in Hows, Fit(k), Usable(k)
    PROVE  Fit(Write(k, how)) /\ Usable(Write(k, how))
<1>1. Live(k)
  BY DEF Live, Usable
<1> QED BY <1>1, WriteSound DEF Fit, Usable

LEMMA CloseFit ==
    ASSUME NEW k, Fit(k), Usable(k)
    PROVE  Fit(Close(k)) /\ Live(Close(k))
<1>1. Live(k) /\ k \in Conn
  BY DEF Live, Usable, Fit, Sound
<1>2. Sound(Close(k)) /\ Live(Close(k))
  BY <1>1, CloseSound DEF Fit
<1>3. CASE k.queued_writes > 0
  <2>1. Close(k) = [k EXCEPT !.queued_close = TRUE]
    BY <1>3 DEF Close, Usable
  <2> QED BY <1>1, <1>2, <2>1 DEF Fit, Usable, Conn
<1>4. CASE ~(k.queued_writes > 0)
  <2>1. Close(k) = [k EXCEPT !.closing = TRUE, !.queued_close = FALSE,
                             !.armed = FALSE, !.handle = "closing",
                             !.reading = FALSE]
    BY <1>1, <1>4 DEF Close, UvClose, Conn, Usable
  <2> QED BY <1>1, <1>2, <2>1 DEF Fit, Conn
<1> QED BY <1>3, <1>4

LEMMA WriteCallbackFit ==
    ASSUME NEW k, Fit(k), Live(k), k.inflight > 0
    PROVE  LET m == WriteCallback(k)
           IN  Fit(m) /\ Live(m) /\ (Usable(k) => Usable(m))
<1> DEFINE m == WriteCallback(k)
           l == [k EXCEPT !.inflight = @ - 1, !.queued_writes = Decrement(@)]
<1>1. k \in Conn /\ Sound(m) /\ Live(m)
  BY WriteCallbackSound DEF Fit, Sound
<1>2. m = IF l.queued_writes = 0 /\ l.queued_close THEN Close(l) ELSE l
  BY <1>1 DEF WriteCallback, OnSend, Conn
<1>3. /\ l.handle = k.handle /\ l.queued_close = k.queued_close
      /\ l.reclosed = k.reclosed /\ l.queued_writes = Decrement(k.queued_writes)
  BY <1>1 DEF Conn
<1>4. CASE l.queued_writes = 0 /\ l.queued_close
  <2>1. k.handle = "open"
    BY <1>3, <1>4 DEF Fit
  <2>2. m = UvClose([l EXCEPT !.closing = TRUE, !.queued_close = FALSE,
                              !.armed = FALSE])
    <3>1. ~(l.queued_writes > 0)
      BY <1>4
    <3> QED BY <1>2, <1>4, <3>1 DEF Close
  <2>3. ~m.reclosed /\ ~m.queued_close
    <3>1. l \in [DOMAIN k -> UNION {{k[f], l[f]} : f \in DOMAIN k}]
      BY <1>1 DEF Conn
    <3> QED BY <1>1, <1>3, <2>1, <2>2, <3>1 DEF UvClose, Conn, Fit
  <2> QED BY <1>1, <1>3, <1>4, <2>3 DEF Fit, Usable
<1>5. CASE ~(l.queued_writes = 0 /\ l.queued_close)
  BY <1>1, <1>2, <1>3, <1>5 DEF Fit, Usable
<1> QED BY <1>4, <1>5

LEMMA TimerFit ==
    ASSUME NEW k, Fit(k), Live(k), k.armed
    PROVE  Fit(TimerCallback(k)) /\ Live(TimerCallback(k))
<1>1. k \in Conn
  BY DEF Fit, Sound
<1>2. Sound(TimerCallback(k)) /\ Live(TimerCallback(k))
  BY TimerCallbackSound DEF Fit
<1> QED BY <1>1, <1>2 DEF TimerCallback, Crash, UvCloseReset, Fit, Conn

LEMMA FreedFit ==
    ASSUME NEW k, Fit(k), k.handle \in {"closing", "resetting"}, k.inflight = 0
    PROVE  Fit(Freed(k)) /\ ~Live(Freed(k))
<1>1. k \in Conn
  BY DEF Fit, Sound
<1>2. Sound(Freed(k)) /\ ~Live(Freed(k))
  BY FreedSound DEF Fit
<1> QED BY <1>1, <1>2 DEF Freed, Fit, Conn

LEMMA HandedFit ==
    ASSUME NEW t \in BOOLEAN
    PROVE  Fit(Handed(t)) /\ Usable(Handed(t))
<1> DEFINE k == StopListening(Listen(NewClient(t)))
<1>1. /\ k \in Conn /\ k.handle = "open" /\ ~k.queued_close /\ ~k.reclosed
      /\ Sound(k)
  <2>1. Sound(Listen(NewClient(t))) /\ Live(Listen(NewClient(t)))
    BY NewClientSound, ListenSound
  <2>2. Sound(k)
    BY <2>1, StopListeningSound
  <2> QED BY <2>2 DEF NewClient, NoConn, Listen, StopListening, Sound
<1>2. /\ Sound(SetTimeout(k, TRUE)) /\ SetTimeout(k, TRUE).handle = "open"
      /\ ~SetTimeout(k, TRUE).queued_close /\ ~SetTimeout(k, TRUE).reclosed
  <2>1. Sound(SetTimeout(k, TRUE)) /\ SetTimeout(k, TRUE).handle = "open"
    BY <1>1, SetTimeoutSound DEF Live
  <2> QED BY <1>1, <2>1 DEF SetTimeout, Conn
<1> QED BY <1>1, <1>2 DEF Handed, Fit, Usable

----------------------------------------------------------------------------
(* A step about one connection.                                            *)

LEMMA OneConnection ==
    ASSUME IInv, NEW c \in Clients, NEW k \in Conn, NEW e \in Exec, NEW r \in Runner,
           Become(c, k), Executes(c, e), Runs(c, r),
           Fit(k), Related(r, e, k),
           clients' \in SUBSET Clients,
           \A d \in Clients \ {c} : d \in clients' <=> d \in clients,
           c \in clients' <=> Live(k)
    PROVE  IInv'
<1>1. TypeOK'
  BY DEF IInv, TypeOK, ConnTypeOK, Become, Executes, Runs
<1>2. \A d \in Clients :
         /\ Fit(conn'[d]) /\ Related(runner'[d], exec'[d], conn'[d])
         /\ d \in clients' <=> Live(conn'[d])
  BY DEF IInv, TypeOK, ConnTypeOK, Become, Executes, Runs
<1> QED BY <1>1, <1>2 DEF IInv

(* Only the connection changes, and stays usable if it was.                *)
LEMMA OnlyConnection ==
    ASSUME IInv, NEW c \in Clients, NEW k, Become(c, k),
           UNCHANGED <<clients, exec, runner>>, c \in clients,
           Fit(k), Live(k),
           Usable(conn[c]) => Usable(k) \/ Over(runner[c], exec[c])
    PROVE  IInv'
<1>1. k \in Conn /\ exec[c] \in Exec /\ runner[c] \in Runner
  BY DEF IInv, TypeOK, Fit, Sound
<1>2. Executes(c, exec[c]) /\ Runs(c, runner[c])
  BY DEF IInv, TypeOK, Executes, Runs
<1>3. Related(runner[c], exec[c], k)
  BY DEF IInv, Related, Over, Unused, Live
<1> QED BY <1>1, <1>2, <1>3, OneConnection DEF IInv, TypeOK, ConnTypeOK

LEMMA RunnerTypes ==
    ASSUME NEW r \in Runner
    PROVE  /\ [r EXCEPT !.pc = "handled"] \in Runner
           /\ [r EXCEPT !.relayed = @ + 1] \in Runner
           /\ [r EXCEPT !.written = @ + 1] \in Runner
           /\ [r EXCEPT !.response = "gone"] \in Runner
           /\ r.response = "open" =>
                 ClosePipe(r) = [r EXCEPT !.response = "closing"]
           /\ r.response = "open" => ClosePipe(r) \in Runner
           /\ Opened([r EXCEPT !.pc = "run"]) \in Runner
           /\ LET o == Opened([r EXCEPT !.pc = "run"])
              IN  /\ o.pc = "run" /\ o.response = "open" /\ o.write_end
                  /\ o.reclosed = r.reclosed
<1>1. /\ [r EXCEPT !.pc = "handled"] \in Runner
      /\ [r EXCEPT !.relayed = @ + 1] \in Runner
      /\ [r EXCEPT !.written = @ + 1] \in Runner
      /\ [r EXCEPT !.response = "gone"] \in Runner
  BY DEF Runner
<1>2. r.response = "open" =>
         /\ ClosePipe(r) = [r EXCEPT !.response = "closing"]
         /\ ClosePipe(r) \in Runner
  BY DEF Runner, ClosePipe
<1>3. Opened([r EXCEPT !.pc = "run"]) =
         [r EXCEPT !.pc = "run", !.response = "open", !.write_end = TRUE]
  BY DEF Runner, Opened
<1>4. LET o == [r EXCEPT !.pc = "run", !.response = "open", !.write_end = TRUE]
      IN  /\ o \in Runner
          /\ o.pc = "run" /\ o.response = "open" /\ o.write_end
          /\ o.reclosed = r.reclosed
  BY DEF Runner
<1> QED BY <1>1, <1>2, <1>3, <1>4

LEMMA ExecTypes ==
    ASSUME NEW e \in Exec
    PROVE  /\ Spawned(e) \in Exec /\ SpawnFails(e) \in Exec
           /\ ExitReported(e) \in Exec /\ ChildEnds(e) \in Exec
           /\ Spawned(e).child = "running" /\ Spawned(e).data /\ Spawned(e).alive
           /\ SpawnFails(e).child = e.child /\ (~e.alive => ~SpawnFails(e).alive)
           /\ e.data => ~ExitReported(e).alive
           /\ ExitReported(e).child = "reported"
           /\ ChildEnds(e).child = "exited"
           /\ ChildEnds(e).data = e.data /\ ChildEnds(e).alive = e.alive
<1>1. Ready(e) \in Exec /\ Ready(e).child = e.child /\ (~e.alive => Ready(e) = e)
  BY DEF Exec, Ready, Kill
<1>2. /\ SpawnFails(e) \in Exec /\ SpawnFails(e).child = e.child
      /\ SpawnFails(e).data /\ (~e.alive => ~SpawnFails(e).alive)
  BY <1>1 DEF Exec, SpawnFails
<1>3. /\ Spawned(e) \in Exec
      /\ Spawned(e).child = "running" /\ Spawned(e).data /\ Spawned(e).alive
  BY <1>2 DEF Exec, Spawned
<1>4. /\ ExitReported(e) \in Exec /\ ChildEnds(e) \in Exec
      /\ e.data => ~ExitReported(e).alive
      /\ ExitReported(e).child = "reported"
      /\ ChildEnds(e).child = "exited"
      /\ ChildEnds(e).data = e.data /\ ChildEnds(e).alive = e.alive
  BY DEF Exec, ExitReported, ChildEnds
<1> QED BY <1>1, <1>2, <1>3, <1>4

LEMMA InitInv == Init => IInv
<1>1. NoConn \in Conn /\ NoExec \in Exec /\ NoRunner \in Runner
  BY DEF NoConn, Conn, Handles, NoExec, Exec, NoRunner, Runner
<1>2. Fit(NoConn) /\ ~Live(NoConn) /\ Related(NoRunner, NoExec, NoConn)
  BY <1>1 DEF Fit, Sound, Live, NoConn, Related, Unused, NoRunner
<1> QED BY <1>1, <1>2 DEF Init, IInv, TypeOK, ConnTypeOK

(* The runner closes its client and its pipe.                              *)
LEMMA CloseRunnerInv ==
    ASSUME IInv, NEW c \in Clients, NEW k, NEW r \in Runner, NEW e \in Exec,
           Fit(k), Usable(k), r.pc = "run", r.response = "open", ~r.reclosed,
           e.child \in {"none", "reported"}, ~e.alive,
           c \in clients, clients' = clients,
           Become(c, Close(k)), Executes(c, e), Runs(c, ClosePipe(r))
    PROVE  IInv'
<1>1. Fit(Close(k)) /\ Live(Close(k))
  BY CloseFit
<1>2. ClosePipe(r) \in Runner /\ ClosePipe(r) = [r EXCEPT !.response = "closing"]
  BY RunnerTypes
<1>3. Related(ClosePipe(r), e, Close(k))
  BY <1>2 DEF Related, Over, Runner
<1>4. Close(k) \in Conn
  BY <1>1 DEF Fit, Sound
<1> QED BY <1>1, <1>2, <1>3, <1>4, OneConnection DEF IInv, TypeOK, ConnTypeOK

LEMMA StepInv ==
    ASSUME ~SlowScripts, IInv, [Next]_vars
    PROVE  IInv'
<1>1. ASSUME NEW c \in Clients, Handle(c) PROVE IInv'
  <2>1. PICK t \in GarbageTimeout, how \in Hows : Become(c, Write(Handed(t), how))
    BY <1>1 DEF Handle
  <2> DEFINE k == Write(Handed(t), how)
             r == [runner[c] EXCEPT !.pc = "handled"]
  <2>2. Fit(k) /\ Usable(k)
    BY HandedFit, WriteFit
  <2>3. runner[c] \in Runner /\ exec[c] \in Exec /\ runner[c].pc = "none"
    BY <1>1 DEF Handle, IInv, TypeOK
  <2>4. r \in Runner /\ Related(r, exec[c], k)
    BY <2>2, <2>3, RunnerTypes DEF IInv, Related, Unused, Runner
  <2>5. Executes(c, exec[c]) /\ Runs(c, r)
    BY <1>1 DEF Handle, Executes, IInv, TypeOK
  <2>6. k \in Conn /\ Live(k)
    BY <2>2 DEF Fit, Sound, Usable, Live
  <2>7. clients' = clients \cup {c}
    BY <1>1 DEF Handle
  <2> HIDE DEF k, r
  <2> QED BY <2>1, <2>2, <2>3, <2>4, <2>5, <2>6, <2>7, OneConnection
          DEF IInv, TypeOK, ConnTypeOK, k
<1>2. ASSUME NEW c \in Clients, RunCgi(c) PROVE IInv'
  <2> DEFINE r == Opened([runner[c] EXCEPT !.pc = "run"])
  <2>1. /\ runner[c] \in Runner /\ exec[c] \in Exec /\ runner[c].pc = "handled"
        /\ c \in clients /\ clients' = clients
        /\ Fit(conn[c]) /\ Usable(conn[c]) /\ exec[c] = NoExec
        /\ ~runner[c].reclosed /\ Live(conn[c])
    BY <1>2 DEF RunCgi, IInv, TypeOK, Related, Unused, Usable, Live
  <2>2. /\ r \in Runner /\ r.pc = "run" /\ r.response = "open" /\ r.write_end
        /\ ~r.reclosed
    BY <2>1, RunnerTypes
  <2>3. CASE Executes(c, Spawned(exec[c])) /\ Runs(c, r) /\ UNCHANGED conn
    <3>1. Become(c, conn[c]) /\ conn[c] \in Conn
      BY <2>3 DEF Become, IInv, TypeOK, ConnTypeOK
    <3>2. Spawned(exec[c]) \in Exec /\ Working(r, Spawned(exec[c]))
      BY <2>1, <2>2, ExecTypes DEF Working
    <3>3. Related(r, Spawned(exec[c]), conn[c])
      BY <2>1, <2>2, <3>2 DEF Related
    <3> HIDE DEF r
    <3> QED BY <2>1, <2>2, <2>3, <3>1, <3>2, <3>3, OneConnection
            DEF IInv, TypeOK, ConnTypeOK
  <2>4. CASE /\ Executes(c, SpawnFails(exec[c]))
             /\ \E how \in Hows : Become(c, Close(Write(conn[c], how)))
             /\ Runs(c, ClosePipe(r))
    <3>1. PICK how \in Hows : Become(c, Close(Write(conn[c], how)))
      BY <2>4
    <3>2. Fit(Write(conn[c], how)) /\ Usable(Write(conn[c], how))
      BY <2>1, WriteFit
    <3>3. /\ SpawnFails(exec[c]) \in Exec
          /\ SpawnFails(exec[c]).child = "none" /\ ~SpawnFails(exec[c]).alive
      BY <2>1, ExecTypes DEF NoExec
    <3> HIDE DEF r
    <3> QED BY <2>1, <2>2, <2>4, <3>1, <3>2, <3>3, CloseRunnerInv
  <2> QED BY <1>2, <2>3, <2>4 DEF RunCgi
<1>3. ASSUME NEW c \in Clients, OnRead(c) PROVE IInv'
  <2>1. /\ runner[c] \in Runner /\ exec[c] \in Exec /\ runner[c].response = "open"
        /\ c \in clients /\ clients' = clients /\ exec' = exec
        /\ runner[c].pc = "run" /\ Working(runner[c], exec[c])
        /\ Fit(conn[c]) /\ Usable(conn[c]) /\ ~runner[c].reclosed
    BY <1>3 DEF OnRead, IInv, TypeOK, Related, Unused, Over, Runner
  <2>2. PICK how \in Hows : Relay(c, how)
    BY <1>3, <2>1 DEF OnRead, Reads, Working
  <2> DEFINE k == Write(conn[c], how)
             r == [runner[c] EXCEPT !.relayed = @ + 1]
  <2>3. Fit(k) /\ Usable(k)
    BY <2>1, WriteFit
  <2>4. r \in Runner /\ Related(r, exec[c], k)
    BY <2>1, <2>3, RunnerTypes DEF Related, Working, Runner
  <2>5. Become(c, k) /\ Executes(c, exec[c]) /\ Runs(c, r)
    BY <2>1, <2>2 DEF Relay, Executes, IInv, TypeOK
  <2>6. k \in Conn /\ Live(k)
    BY <2>3 DEF Fit, Sound, Usable, Live
  <2> HIDE DEF k, r
  <2> QED BY <2>1, <2>3, <2>4, <2>5, <2>6, OneConnection DEF IInv, TypeOK, ConnTypeOK
<1>4. ASSUME NEW c \in Clients, OnExit(c) PROVE IInv'
  <2>1. /\ runner[c] \in Runner /\ exec[c] \in Exec /\ exec[c].child = "exited"
        /\ c \in clients /\ clients' = clients /\ runner[c].pc = "run"
        /\ Working(runner[c], exec[c]) /\ Fit(conn[c]) /\ Usable(conn[c])
        /\ ~runner[c].reclosed
    BY <1>4 DEF OnExit, IInv, TypeOK, Related, Unused, Over, NoExec, Runner
  <2>2. /\ ExitReported(exec[c]) \in Exec /\ ~ExitReported(exec[c]).alive
        /\ ExitReported(exec[c]).child = "reported"
    BY <2>1, ExecTypes DEF Working
  <2>3. /\ Executes(c, ExitReported(exec[c])) /\ Become(c, Close(conn[c]))
        /\ Runs(c, ClosePipe(runner[c])) /\ runner[c].response = "open"
    BY <1>4, <2>1 DEF OnExit, Exits, CloseRunner, Working
  <2> QED BY <2>1, <2>2, <2>3, CloseRunnerInv
<1>5. ASSUME NEW c \in Clients, NEW r \in Runner, NEW e \in Exec,
             Runs(c, r), Executes(c, e), UNCHANGED <<clients, conn>>,
             Related(r, e, conn[c])
      PROVE  IInv'
  <2>1. Become(c, conn[c]) /\ conn[c] \in Conn
    BY <1>5 DEF Become, IInv, TypeOK, ConnTypeOK
  <2> QED BY <1>5, <2>1, OneConnection DEF IInv, TypeOK, ConnTypeOK
<1>6. ASSUME NEW c \in Clients, OnPipeClosed(c) PROVE IInv'
  <2> DEFINE r == [runner[c] EXCEPT !.response = "gone"]
  <2>1. runner[c] \in Runner /\ exec[c] \in Exec
    BY DEF IInv, TypeOK
  <2>2. r \in Runner /\ Related(r, exec[c], conn[c])
    BY <1>6, <2>1, RunnerTypes
       DEF OnPipeClosed, IInv, Related, Unused, Over, Working, Runner
  <2>3. Runs(c, r) /\ Executes(c, exec[c]) /\ UNCHANGED <<clients, conn>>
    BY <1>6 DEF OnPipeClosed, Executes, IInv, TypeOK
  <2> QED BY <1>5, <2>1, <2>2, <2>3
<1>7. ASSUME NEW c \in Clients, ScriptWrites(c) PROVE IInv'
  <2> DEFINE r == [runner[c] EXCEPT !.written = @ + 1]
  <2>1. runner[c] \in Runner /\ exec[c] \in Exec
    BY DEF IInv, TypeOK
  <2>2. r \in Runner /\ Related(r, exec[c], conn[c])
    BY <2>1, RunnerTypes DEF IInv, Related, Unused, Over, Working, Runner
  <2>3. Runs(c, r) /\ Executes(c, exec[c]) /\ UNCHANGED <<clients, conn>>
    BY <1>7 DEF ScriptWrites, Executes, IInv, TypeOK
  <2> QED BY <1>5, <2>1, <2>2, <2>3
<1>8. ASSUME NEW c \in Clients, ScriptEnds(c) PROVE IInv'
  <2> DEFINE e == ChildEnds(exec[c])
  <2>1. runner[c] \in Runner /\ exec[c] \in Exec
    BY DEF IInv, TypeOK
  <2>2. e \in Exec /\ Related(runner[c], e, conn[c])
    BY <1>8, <2>1, ExecTypes
       DEF ScriptEnds, IInv, Related, Unused, Over, Working, NoExec
  <2>3. Runs(c, runner[c]) /\ Executes(c, e) /\ UNCHANGED <<clients, conn>>
    BY <1>8 DEF ScriptEnds, Runs, IInv, TypeOK
  <2> QED BY <1>5, <2>1, <2>2, <2>3
<1>9. ASSUME NEW c \in Clients, OnWritten(c) PROVE IInv'
  <2>1. /\ Fit(conn[c]) /\ Live(conn[c]) /\ conn[c].inflight > 0 /\ c \in clients
        /\ Become(c, WriteCallback(conn[c])) /\ UNCHANGED <<clients, exec, runner>>
    BY <1>9 DEF OnWritten, CanFinishWrite, IInv
  <2> QED BY <2>1, WriteCallbackFit, OnlyConnection
<1>10. ASSUME NEW c \in Clients, OnTimeout(c) PROVE IInv'
  <2>1. /\ Fit(conn[c]) /\ Live(conn[c]) /\ conn[c].armed /\ c \in clients
        /\ Become(c, TimerCallback(conn[c])) /\ UNCHANGED <<clients, exec, runner>>
        /\ runner[c].pc # "handled" /\ ~Due(c) /\ runner[c] \in Runner
    BY <1>10 DEF OnTimeout, InTime, IInv, TypeOK
  <2>2. Over(runner[c], exec[c])
    BY <2>1 DEF IInv, Related, Working, Due, Live, Runner
  <2> QED BY <2>1, <2>2, TimerFit, OnlyConnection
<1>11. ASSUME NEW c \in Clients, OnClose(c) PROVE IInv'
  <2> DEFINE k == Freed(conn[c])
  <2>1. /\ Fit(conn[c]) /\ conn[c].handle \in {"closing", "resetting"}
        /\ conn[c].inflight = 0 /\ Become(c, k) /\ clients' = clients \ {c}
        /\ runner[c] \in Runner /\ exec[c] \in Exec
    BY <1>11 DEF OnClose, CanRelease, IInv, TypeOK
  <2>2. Fit(k) /\ ~Live(k)
    BY <2>1, FreedFit
  <2>3. Related(runner[c], exec[c], k)
    BY <2>1 DEF IInv, Related, Usable, Over, Working
  <2>4. Runs(c, runner[c]) /\ Executes(c, exec[c])
    BY <1>11 DEF OnClose, Runs, Executes, IInv, TypeOK
  <2>5. k \in Conn
    BY <2>2 DEF Fit, Sound
  <2> HIDE DEF k
  <2> QED BY <2>1, <2>2, <2>3, <2>4, <2>5, OneConnection DEF IInv, TypeOK, ConnTypeOK
<1>12. CASE UNCHANGED vars
  BY <1>12 DEF vars, IInv, TypeOK, ConnTypeOK
<1> QED
  BY <1>1, <1>2, <1>3, <1>4, <1>6, <1>7, <1>8, <1>9, <1>10, <1>11, <1>12
  DEF Next, ClientStep, RunnerStep, ScriptStep

LEMMA Inductive == ASSUME ~SlowScripts PROVE Spec => []IInv
<1>1. IInv /\ [Next]_vars => IInv'
  BY StepInv
<1> QED BY InitInv, <1>1, PTL DEF Spec

----------------------------------------------------------------------------
(***************************************************************************)
(* What holds however long a script runs, also when its client is gone.    *)
(***************************************************************************)
BasicInv ==
    /\ TypeOK
    /\ \A c \in Clients :
          /\ Sound(conn[c])
          /\ c \in clients <=> Live(conn[c])
          /\ runner[c].pc # "run" => exec[c] = NoExec

(* What a step makes of the Executor of a runner, which goes from r to s.  *)
Uses(r, e, s, f) ==
    \/ f = e /\ (s.pc = "none" <=> r.pc = "none")
    \/ f = e /\ r.pc = "none" /\ s.pc # "none"
    \/ /\ r.pc # "none" /\ s.pc # "none"
       /\ \/ ~e.alive /\ f \in {Spawned(e), SpawnFails(e)}
          \/ e.child = "running" /\ f = ChildEnds(e)
          \/ e.child = "exited" /\ f = ExitReported(e)

(* Any step is about one connection, its runner and its Executor.          *)
Touches(c, k, e, r) ==
    /\ Become(c, k) /\ Executes(c, e) /\ Runs(c, r)
    /\ Sound(k) /\ e \in Exec /\ r \in Runner
    /\ r.pc # "run" => e = NoExec
    /\ clients' \in SUBSET Clients
    /\ \A d \in Clients \ {c} : d \in clients' <=> d \in clients
    /\ c \in clients' <=> Live(k)
    /\ Uses(runner[c], exec[c], r, e)
    /\ Handle(c) \/ AStep(conn[c], k)

LEMMA BasicTypes ==
    ASSUME BasicInv, NEW c \in Clients
    PROVE  /\ conn[c] \in Conn /\ Sound(conn[c]) /\ exec[c] \in Exec /\ runner[c] \in Runner
           /\ clients \in SUBSET Clients
           /\ Pending(conn[c]) \in Nat
           /\ AStep(conn[c], conn[c])
           /\ UNCHANGED conn => Become(c, conn[c])
           /\ UNCHANGED exec => Executes(c, exec[c])
           /\ UNCHANGED runner => Runs(c, runner[c])
<1>1. conn \in [Clients -> Conn] /\ exec \in [Clients -> Exec] /\ runner \in [Clients -> Runner]
  BY DEF BasicInv, TypeOK, ConnTypeOK
<1>2. Sound(conn[c]) /\ clients \in SUBSET Clients /\ Pending(conn[c]) \in Nat
  BY PendingType DEF BasicInv, TypeOK, ConnTypeOK
<1> QED BY <1>1, <1>2 DEF Become, Executes, Runs, AStep

LEMMA ClosePipeType ==
    ASSUME NEW r \in Runner PROVE ClosePipe(r) \in Runner /\ ClosePipe(r).pc = r.pc
  BY DEF Runner, ClosePipe

(* The connection's own callbacks leave runner and Executor alone.         *)
LEMMA ClientTouches ==
    ASSUME BasicInv, NEW c \in Clients, ClientStep(c)
    PROVE  \E k : Touches(c, k, exec[c], runner[c])
<1>1. CASE OnWritten(c)
  <2>1. /\ Live(conn[c]) /\ conn[c].inflight > 0 /\ c \in clients
        /\ Become(c, WriteCallback(conn[c])) /\ UNCHANGED <<clients, exec, runner>>
    BY <1>1 DEF OnWritten, CanFinishWrite, BasicInv
  <2>2. /\ Sound(WriteCallback(conn[c])) /\ Live(WriteCallback(conn[c]))
        /\ AStep(conn[c], WriteCallback(conn[c]))
    BY <2>1, BasicTypes, WriteCallbackSound
  <2> QED BY <2>1, <2>2, BasicTypes DEF BasicInv, Touches, Uses
<1>2. CASE OnTimeout(c)
  <2>1. /\ Live(conn[c]) /\ c \in clients
        /\ Become(c, TimerCallback(conn[c])) /\ UNCHANGED <<clients, exec, runner>>
    BY <1>2 DEF OnTimeout, BasicInv
  <2>2. /\ Sound(TimerCallback(conn[c])) /\ Live(TimerCallback(conn[c]))
        /\ AStep(conn[c], TimerCallback(conn[c]))
    BY <2>1, BasicTypes, TimerCallbackSound
  <2> QED BY <2>1, <2>2, BasicTypes DEF BasicInv, Touches, Uses
<1>3. CASE OnClose(c)
  <2>1. /\ conn[c].handle \in {"closing", "resetting"} /\ conn[c].inflight = 0
        /\ Become(c, Freed(conn[c])) /\ clients' = clients \ {c}
        /\ UNCHANGED <<exec, runner>>
    BY <1>3 DEF OnClose, CanRelease
  <2>2. Sound(Freed(conn[c])) /\ ~Live(Freed(conn[c])) /\ AStep(conn[c], Freed(conn[c]))
    BY <2>1, BasicTypes, FreedSound
  <2> QED BY <2>1, <2>2, BasicTypes DEF BasicInv, Touches, Uses
<1> QED BY <1>1, <1>2, <1>3 DEF ClientStep

LEMMA ScriptTouches ==
    ASSUME BasicInv, NEW c \in Clients, ScriptStep(c)
    PROVE  \E e, r : Touches(c, conn[c], e, r)
<1>0. exec[c].child = "running" /\ runner[c].pc = "run"
  BY BasicTypes DEF ScriptStep, ScriptWrites, ScriptEnds, BasicInv, NoExec
<1>1. CASE ScriptWrites(c)
  <2> DEFINE r == [runner[c] EXCEPT !.written = @ + 1]
  <2>1. r \in Runner /\ r.pc = "run" /\ Runs(c, r) /\ UNCHANGED <<clients, conn, exec>>
    BY <1>0, <1>1, BasicTypes, RunnerTypes DEF ScriptWrites, Runner
  <2> HIDE DEF r
  <2> QED BY <1>0, <2>1, BasicTypes DEF BasicInv, Touches, Uses
<1>2. CASE ScriptEnds(c)
  <2>1. ChildEnds(exec[c]) \in Exec
    BY BasicTypes, ExecTypes
  <2>2. Executes(c, ChildEnds(exec[c])) /\ UNCHANGED <<clients, conn, runner>>
    BY <1>2 DEF ScriptEnds
  <2> QED BY <1>0, <2>1, <2>2, BasicTypes DEF BasicInv, Touches, Uses
<1> QED BY <1>1, <1>2 DEF ScriptStep

(* The runner closes its client, whatever became of it, and its pipe.      *)
LEMMA CloseTouches ==
    ASSUME BasicInv, NEW c \in Clients, c \in clients, UNCHANGED clients,
           NEW k, Sound(k), Live(k), Queues(conn[c], k), Become(c, Close(k)),
           NEW r \in Runner, r.pc = "run", Runs(c, ClosePipe(r)),
           NEW e \in Exec, Executes(c, e), Uses(runner[c], exec[c], r, e)
    PROVE  Touches(c, Close(k), e, ClosePipe(r))
<1>1. Sound(Close(k)) /\ Live(Close(k)) /\ Closes(k, Close(k))
  BY CloseSound
<1>2. AStep(conn[c], Close(k))
  BY <1>1, BasicTypes, PendingType, QueuesThenCloses
<1>3. ClosePipe(r) \in Runner /\ ClosePipe(r).pc = "run"
  BY ClosePipeType
<1>4. Uses(runner[c], exec[c], ClosePipe(r), e)
  BY <1>3 DEF Uses
<1> QED BY <1>1, <1>2, <1>3, <1>4, BasicTypes DEF BasicInv, Touches

LEMMA RunnerTouches ==
    ASSUME BasicInv, NEW c \in Clients, RunnerStep(c)
    PROVE  \E k, e, r : Touches(c, k, e, r)
<1>0. Queues(conn[c], conn[c])
  BY BasicTypes DEF Queues
<1>1. CASE Handle(c)
  <2>1. PICK t \in GarbageTimeout, how \in Hows : Become(c, Write(Handed(t), how))
    BY <1>1 DEF Handle
  <2> DEFINE k == Write(Handed(t), how)
             r == [runner[c] EXCEPT !.pc = "handled"]
  <2>2. Sound(k) /\ Live(k)
    BY HandedFit, WriteFit DEF Fit, Usable, Live
  <2>3. /\ r \in Runner /\ r.pc = "handled" /\ Runs(c, r) /\ UNCHANGED exec
        /\ clients' = clients \cup {c} /\ runner[c].pc = "none" /\ exec[c] = NoExec
    BY <1>1, BasicTypes, RunnerTypes DEF Handle, Runner, BasicInv
  <2> HIDE DEF k, r
  <2> QED BY <1>1, <2>1, <2>2, <2>3, BasicTypes DEF BasicInv, Touches, Uses, k
<1>2. CASE RunCgi(c)
  <2> DEFINE r == Opened([runner[c] EXCEPT !.pc = "run"])
  <2>0. /\ runner[c].pc = "handled" /\ c \in clients /\ clients' = clients
        /\ Live(conn[c]) /\ ~exec[c].alive
    BY <1>2 DEF RunCgi, BasicInv, NoExec
  <2>1. /\ r \in Runner /\ r.pc = "run" /\ runner[c].pc = "handled"
        /\ c \in clients /\ clients' = clients /\ Live(conn[c]) /\ ~exec[c].alive
    BY <2>0, BasicTypes, RunnerTypes
  <2>2. CASE Executes(c, Spawned(exec[c])) /\ Runs(c, r) /\ UNCHANGED conn
    <3>1. Spawned(exec[c]) \in Exec
      BY BasicTypes, ExecTypes
    <3> HIDE DEF r
    <3> QED BY <2>1, <2>2, <3>1, BasicTypes DEF BasicInv, Touches, Uses
  <2>3. CASE /\ Executes(c, SpawnFails(exec[c]))
             /\ \E how \in Hows : Become(c, Close(Write(conn[c], how)))
             /\ Runs(c, ClosePipe(r))
    <3>1. PICK how \in Hows : Become(c, Close(Write(conn[c], how)))
      BY <2>3
    <3>2. /\ Sound(Write(conn[c], how)) /\ Live(Write(conn[c], how))
          /\ Queues(conn[c], Write(conn[c], how))
      BY <2>1, BasicTypes, WriteSound
    <3>3. SpawnFails(exec[c]) \in Exec
      BY BasicTypes, ExecTypes
    <3> HIDE DEF r
    <3>4. Uses(runner[c], exec[c], r, SpawnFails(exec[c]))
      BY <2>1 DEF Uses
    <3> QED BY <2>1, <2>3, <3>1, <3>2, <3>3, <3>4, CloseTouches
  <2> QED BY <1>2, <2>2, <2>3 DEF RunCgi
<1>3. CASE OnRead(c)
  <2>1. /\ c \in clients /\ Live(conn[c]) /\ UNCHANGED <<clients, exec>>
    BY <1>3 DEF OnRead, BasicInv
  <2>2. CASE \E how \in Hows : Relay(c, how)
    <3>1. PICK how \in Hows : Relay(c, how)
      BY <2>2
    <3> DEFINE k == Write(conn[c], how)
               r == [runner[c] EXCEPT !.relayed = @ + 1]
    <3>2. Sound(k) /\ Live(k) /\ AStep(conn[c], k)
      BY <2>1, BasicTypes, WriteSound, QueuesIsAStep
    <3>3. r \in Runner /\ r.pc = runner[c].pc /\ Become(c, k) /\ Runs(c, r)
      BY <3>1, BasicTypes, RunnerTypes DEF Relay, Runner
    <3> HIDE DEF k, r
    <3> QED BY <2>1, <3>2, <3>3, BasicTypes DEF BasicInv, Touches, Uses
  <2>3. CASE CloseRunner(c)
    <3>1. Sound(Close(conn[c])) /\ Live(Close(conn[c])) /\ AStep(conn[c], Close(conn[c]))
      BY <2>1, BasicTypes, CloseSound, ClosesIsAStep
    <3>2. ClosePipe(runner[c]) \in Runner /\ ClosePipe(runner[c]).pc = runner[c].pc
      BY BasicTypes, ClosePipeType
    <3>3. Become(c, Close(conn[c])) /\ Runs(c, ClosePipe(runner[c]))
      BY <2>3 DEF CloseRunner
    <3> QED BY <2>1, <3>1, <3>2, <3>3, BasicTypes DEF BasicInv, Touches, Uses
  <2> QED BY <1>3, <2>2, <2>3 DEF OnRead
<1>4. CASE OnExit(c)
  <2>1. /\ c \in clients /\ Live(conn[c]) /\ UNCHANGED clients /\ exec[c].child = "exited"
        /\ runner[c].pc = "run"
    BY <1>4, BasicTypes DEF OnExit, BasicInv, NoExec
  <2>2. /\ Executes(c, ExitReported(exec[c])) /\ ExitReported(exec[c]) \in Exec
        /\ Become(c, Close(conn[c])) /\ Runs(c, ClosePipe(runner[c]))
    BY <1>4, BasicTypes, ExecTypes DEF OnExit, Exits, CloseRunner
  <2>3. Uses(runner[c], exec[c], runner[c], ExitReported(exec[c]))
    BY <2>1 DEF Uses
  <2> QED BY <1>0, <2>1, <2>2, <2>3, BasicTypes, CloseTouches
<1>5. CASE OnPipeClosed(c)
  <2> DEFINE r == [runner[c] EXCEPT !.response = "gone"]
  <2>1. r \in Runner /\ r.pc = runner[c].pc /\ Runs(c, r) /\ UNCHANGED <<clients, conn, exec>>
    BY <1>5, BasicTypes, RunnerTypes DEF OnPipeClosed, Runner
  <2> HIDE DEF r
  <2> QED BY <2>1, BasicTypes DEF BasicInv, Touches, Uses
<1> QED BY <1>1, <1>2, <1>3, <1>4, <1>5 DEF RunnerStep

LEMMA EachTouches ==
    ASSUME BasicInv, Next
    PROVE  \E c \in Clients : \E k, e, r : Touches(c, k, e, r)
  BY ClientTouches, ScriptTouches, RunnerTouches DEF Next

LEMMA TouchesBasic ==
    ASSUME BasicInv, NEW c \in Clients, NEW k, NEW e, NEW r, Touches(c, k, e, r)
    PROVE  BasicInv'
<1>1. k \in Conn
  BY DEF Touches, Sound
<1>2. TypeOK'
  BY <1>1 DEF BasicInv, TypeOK, ConnTypeOK, Become, Executes, Runs, Touches
<1>3. \A d \in Clients :
         /\ Sound(conn'[d])
         /\ d \in clients' <=> Live(conn'[d])
         /\ runner'[d].pc # "run" => exec'[d] = NoExec
  BY DEF BasicInv, TypeOK, ConnTypeOK, Become, Executes, Runs, Touches
<1> QED BY <1>2, <1>3 DEF BasicInv

LEMMA BasicInductive == Spec => []BasicInv
<1>1. Init => BasicInv
  <2>1. IInv => BasicInv
    BY DEF IInv, BasicInv, Fit, Related, Unused, TypeOK, Runner
  <2> QED BY <2>1, InitInv
<1>2. BasicInv /\ [Next]_vars => BasicInv'
  <2>1. BasicInv /\ UNCHANGED vars => BasicInv'
    BY DEF vars, BasicInv, TypeOK, ConnTypeOK
  <2> QED BY <2>1, EachTouches, TouchesBasic
<1> QED BY <1>1, <1>2, PTL DEF Spec

(* A step about one Executor is a step of its user.                        *)
LEMMA UsesIsAStep ==
    ASSUME BasicInv, NEW c \in Clients, NEW e, NEW r, Executes(c, e), Runs(c, r),
           Uses(runner[c], exec[c], r, e)
    PROVE  [\E x \in Clients : User!CarefulStep(x)]_(User!vars)
<1> DEFINE life == [d \in Clients |-> IF runner[d].pc = "none" THEN "new" ELSE "made"]
           life2 == [d \in Clients |-> IF runner'[d].pc = "none" THEN "new" ELSE "made"]
<1>1. exec \in [Clients -> Exec] /\ runner \in [Clients -> Runner]
  BY DEF BasicInv, TypeOK
<1>2. life2 = [life EXCEPT ![c] = IF r.pc = "none" THEN "new" ELSE "made"]
  BY <1>1 DEF Runs
<1>3. exec' = [exec EXCEPT ![c] = e]
  BY DEF Executes
<1>4. CASE e = exec[c] /\ (r.pc = "none" <=> runner[c].pc = "none")
  <2>1. life2 = life /\ exec' = exec
    BY <1>1, <1>2, <1>3, <1>4
  <2> QED BY <2>1 DEF User!vars
<1>5. CASE e = exec[c] /\ runner[c].pc = "none" /\ r.pc # "none"
  <2>1. life[c] = "new" /\ life2 = [life EXCEPT ![c] = "made"] /\ exec' = exec
    BY <1>1, <1>2, <1>3, <1>5
  <2> HIDE DEF life, life2
  <2>2. User!Construct(c)
    BY <2>1 DEF User!Construct, life, life2
  <2> QED BY <2>2 DEF User!CarefulStep, User!Other
<1>6. CASE /\ runner[c].pc # "none" /\ r.pc # "none"
           /\ \/ ~exec[c].alive /\ e \in {Spawned(exec[c]), SpawnFails(exec[c])}
              \/ exec[c].child = "running" /\ e = ChildEnds(exec[c])
              \/ exec[c].child = "exited" /\ e = ExitReported(exec[c])
  <2>1. life[c] = "made" /\ life2 = life
    BY <1>1, <1>2, <1>6
  <2> HIDE DEF life, life2
  <2>2. (~exec[c].alive /\ User!Spawn(c)) \/ User!Ends(c) \/ User!OnExit(c)
    BY <1>3, <1>6, <2>1
    DEF User!Spawn, User!Ends, User!OnExit, User!Become, life, life2,
        Spawned, SpawnFails, Ready, Kill, ChildEnds, ExitReported,
        User!Spawned, User!SpawnFails, User!Ready, User!Kill, User!ChildEnds,
        User!ExitReported
  <2> QED BY <2>2 DEF User!CarefulStep, User!Other
<1> QED BY <1>4, <1>5, <1>6 DEF Uses

(* However long scripts run and whatever becomes of their clients, runners *)
(* use their Executors as ExecutorUser does (executor.cpp:29-45, 135-199,  *)
(* filehandler.cpp:376-405).                                               *)
THEOREM UsesExecutors == Spec => ExecutorSpec
<1>1. Init => User!Init
  BY DEF Init, User!Init, NoExec, User!NoExec, NoRunner
<1>2. BasicInv /\ [Next]_vars => [\E x \in Clients : User!CarefulStep(x)]_(User!vars)
  <2>1. UNCHANGED vars => UNCHANGED User!vars
    BY DEF vars, User!vars
  <2>2. BasicInv /\ Next => [\E x \in Clients : User!CarefulStep(x)]_(User!vars)
    BY EachTouches, UsesIsAStep DEF Touches
  <2> QED BY <2>1, <2>2
<1> QED BY <1>1, <1>2, BasicInductive, PTL DEF Spec, ExecutorSpec, User!CarefulSpec

(* From its dispatch on, a connection behaves as Lifecycle says, also one  *)
(* that the timer takes from its script (server.cpp:214-270).              *)
THEOREM KeepsPromise ==
    Spec => [][(\E c \in Clients : Handle(c)) \/ Promise!Next]_(Promise!vars)
<1>1. BasicInv /\ [Next]_vars
        => [(\E c \in Clients : Handle(c)) \/ Promise!Next]_(Promise!vars)
  <2> SUFFICES ASSUME BasicInv, [Next]_vars, ~\E c \in Clients : Handle(c)
               PROVE  [Promise!Next]_(Promise!vars)
    OBVIOUS
  <2>1. UNCHANGED vars => UNCHANGED Promise!vars
    BY DEF vars, Promise!vars
  <2>2. ASSUME Next PROVE [Promise!Next]_(Promise!vars)
    <3>1. PICK c \in Clients : \E k, e, r : Touches(c, k, e, r)
      BY <2>2, EachTouches
    <3>2. PICK k, e, r : Touches(c, k, e, r)
      BY <3>1
    <3>3. conn' = [conn EXCEPT ![c] = k] /\ Sound(k) /\ AStep(conn[c], k)
      BY <3>2 DEF Touches, Become
    <3>4. conn \in [Clients -> Conn] /\ Sound(conn[c])
      BY DEF BasicInv, TypeOK, ConnTypeOK
    <3> QED BY <3>3, <3>4, AStepIsPromised
  <2> QED BY <2>1, <2>2
<1> QED BY <1>1, BasicInductive, PTL DEF Spec

(* Connections, executors and runners keep their types; no write is        *)
(* completed that was not made (filehandler.cpp:294-406).                  *)
THEOREM TypeCorrect == Spec => []TypeOK
<1>1. BasicInv => TypeOK
  BY DEF BasicInv
<1> QED BY <1>1, BasicInductive, PTL

----------------------------------------------------------------------------
(* What holds when no script outlasts the timer.                           *)

(* The callbacks of a runner meet a client they may use                    *)
(* (filehandler.cpp:328, 396, 402-405).                                    *)
THEOREM ClientIsThere == ASSUME ~SlowScripts PROVE Spec => []RunnerHasClient
<1>1. IInv => RunnerHasClient
  BY DEF IInv, TypeOK, RunnerHasClient, Due, Related, Unused, Over, Working,
         NoExec, Usable, Live, Runner, Exec
<1> QED BY <1>1, Inductive, PTL

(* Neither the connection nor the pipe is closed twice, however exit,      *)
(* output, spawn errors and write completions interleave                   *)
(* (filehandler.cpp:391-405, server.cpp:238-250).                          *)
THEOREM NothingClosedTwice == ASSUME ~SlowScripts PROVE Spec => []ClosedOnce
<1>1. IInv => ClosedOnce
  BY DEF IInv, ClosedOnce, Running, Aborted, Fit, Related
<1> QED BY <1>1, Inductive, PTL

=============================================================================
