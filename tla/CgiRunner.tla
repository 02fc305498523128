----------------------------- MODULE CgiRunner -----------------------------
(***************************************************************************)
(* A request answered by a cgi script: CGIRunner and run_cgi               *)
(* (src/sources/filehandler.cpp) with the Executor and the connection they *)
(* use.  A libuv callback is one action.                                   *)
(*                                                                         *)
(* The runner of a connection has its name.  The callback it registers for *)
(* the client's close is never called (the context of an SSLClient is the  *)
(* Manager), so neither on_cgi_close nor ~CGIRunner nor ~Executor runs in  *)
(* this program.  The script's output is counted in reads, blocks of at    *)
(* most 1024 bytes.                                                        *)
(***************************************************************************)
EXTENDS SSLClient, Executor, FiniteSets

CONSTANTS
    TIMEOUTS,           \* built without NO_TIMEOUTS (CMakeLists.txt:11)
    SlowScripts,        \* a request may outlast the timer of 30 seconds
    MaxOutput           \* bound: blocks a script writes

ASSUME RunnerAssumption ==
    /\ TIMEOUTS \in BOOLEAN
    /\ SlowScripts \in BOOLEAN
    /\ MaxOutput \in Nat

VARIABLES
    exec,               \* [Clients -> Exec], the runner's Executor
    runner              \* [Clients -> Runner]

vars == <<clients, conn, exec, runner>>

(***************************************************************************)
(*   pc         no request; handed to FileHandler; run_cgi was called      *)
(*   response   the uv_pipe_t: not made, open, uv_close called, released   *)
(*   reclosed   uv_close was called on it again: the process ends          *)
(*   write_end  run's pipe[1] is open in this process                      *)
(*   written    blocks the script wrote                                    *)
(*   relayed    blocks given to client->send                               *)
(***************************************************************************)
Runner == [pc : {"none", "handled", "run"},
           response : {"none", "open", "closing", "gone"}, reclosed : BOOLEAN,
           write_end : BOOLEAN, written : Nat, relayed : Nat]

NoRunner == [pc |-> "none", response |-> "none", reclosed |-> FALSE,
             write_end |-> FALSE, written |-> 0, relayed |-> 0]

TypeOK ==
    /\ ConnTypeOK
    /\ exec \in [Clients -> Exec]
    /\ runner \in [Clients -> Runner]

Init ==
    /\ clients = {}
    /\ conn = [c \in Clients |-> NoConn]
    /\ exec = [c \in Clients |-> NoExec]
    /\ runner = [c \in Clients |-> NoRunner]

Running == ~Aborted /\ \A c \in Clients : ~runner[c].reclosed

Runs(c, r) == runner' = [runner EXCEPT ![c] = r]
Executes(c, e) == exec' = [exec EXCEPT ![c] = e]

----------------------------------------------------------------------------
(* From accept to FileHandler: the connection listens no more, and the     *)
(* handshake may have left a write in flight.                              *)
Handed(t) ==
    LET k == StopListening(Listen(NewClient(t)))
    IN  IF TIMEOUTS THEN SetTimeout(k, TRUE) ELSE k

Handle(c) ==
    /\ Running
    /\ runner[c].pc = "none"
    /\ \E t \in GarbageTimeout, how \in Hows : Become(c, Write(Handed(t), how))
    /\ clients' = clients \cup {c}
    /\ Runs(c, [runner[c] EXCEPT !.pc = "handled"])
    /\ UNCHANGED exec

(* CGIRunner::close: the script gets SIGINT if it lives, which it may heed *)
(* or not; the client and the pipe are closed.                             *)
PipeStaysOpen(r) == r           \* slip: the pipe is not closed
ClosePipe(r) ==
    IF r.response = "open" THEN [r EXCEPT !.response = "closing"]
                           ELSE [r EXCEPT !.reclosed = TRUE]

(* run_cgi: the pipe, the runner and CGIRunner::run.  pipe[1] goes to the  *)
(* child and is never closed here.                                         *)
ClosedAfterSpawn(r) == [r EXCEPT !.response = "open"]   \* slip: it is
Opened(r) == [r EXCEPT !.response = "open", !.write_end = TRUE]

RunCgi(c) ==
    LET r == Opened([runner[c] EXCEPT !.pc = "run"])
    IN  /\ Running
        /\ runner[c].pc = "handled"
        /\ c \in clients
        /\ \/ /\ Executes(c, Spawned(exec[c]))
              /\ Runs(c, r)
              /\ UNCHANGED conn
           \/ /\ Executes(c, SpawnFails(exec[c]))
              /\ \E how \in Hows : Become(c, Close(Write(conn[c], how)))
              /\ Runs(c, ClosePipe(r))
        /\ UNCHANGED clients

(***************************************************************************)
(* The script.                                                             *)
(***************************************************************************)
ScriptWrites(c) ==
    /\ Running
    /\ exec[c].child = "running"
    /\ runner[c].written < MaxOutput
    /\ Runs(c, [runner[c] EXCEPT !.written = @ + 1])
    /\ UNCHANGED <<clients, conn, exec>>

ScriptEnds(c) ==
    /\ Running
    /\ exec[c].child = "running"
    /\ Executes(c, ChildEnds(exec[c]))
    /\ UNCHANGED <<clients, conn, runner>>

(***************************************************************************)
(* The callbacks of the runner.                                            *)
(***************************************************************************)
(* What a read of the pipe returns: data, or its end once no write end is  *)
(* open any more.                                                          *)
Reads(c) ==
    IF runner[c].written > runner[c].relayed THEN {"data"}
    ELSE IF runner[c].write_end \/ exec[c].child = "running" THEN {}
    ELSE {"end"}

Relay(c, how) ==
    /\ Become(c, Write(conn[c], how))
    /\ Runs(c, [runner[c] EXCEPT !.relayed = @ + 1])

CloseRunner(c) ==
    /\ Become(c, Close(conn[c]))
    /\ Runs(c, ClosePipe(runner[c]))

(* __on_read.                                                              *)
OnRead(c) ==
    /\ Running
    /\ runner[c].response = "open"
    /\ c \in clients
    /\ \E read \in Reads(c), how \in Hows :
          IF read = "data" THEN Relay(c, how) ELSE CloseRunner(c)
    /\ UNCHANGED <<clients, exec>>

(* slip: the end of the script is not acted upon                           *)
Ignored(c) == UNCHANGED <<conn, runner>>
Exits(c) == CloseRunner(c)

(* Executor::__on_exit and CGIRunner::onExit.                              *)
OnExit(c) ==
    /\ Running
    /\ exec[c].child = "exited"
    /\ c \in clients
    /\ Executes(c, ExitReported(exec[c]))
    /\ Exits(c)
    /\ UNCHANGED clients

(* __on_pipe_closed.                                                       *)
OnPipeClosed(c) ==
    /\ Running
    /\ runner[c].response = "closing"
    /\ Runs(c, [runner[c] EXCEPT !.response = "gone"])
    /\ UNCHANGED <<clients, conn, exec>>

----------------------------------------------------------------------------
(***************************************************************************)
(* The callbacks of the connection.                                        *)
(***************************************************************************)
(* A callback that uses the client is still to come.                       *)
Due(c) == runner[c].response = "open" \/ exec[c].child \in {"running", "exited"}

InTime(c) == ~SlowScripts => runner[c].pc # "handled" /\ ~Due(c)

OnWritten(c) ==
    /\ Running
    /\ CanFinishWrite(c)
    /\ Become(c, WriteCallback(conn[c]))
    /\ UNCHANGED <<clients, exec, runner>>

OnTimeout(c) ==
    /\ Running
    /\ c \in clients
    /\ conn[c].armed
    /\ InTime(c)
    /\ Become(c, TimerCallback(conn[c]))
    /\ UNCHANGED <<clients, exec, runner>>

OnClose(c) ==
    /\ Running
    /\ CanRelease(c)
    /\ Become(c, Freed(conn[c]))
    /\ clients' = clients \ {c}
    /\ UNCHANGED <<exec, runner>>

ClientStep(c) == OnWritten(c) \/ OnTimeout(c) \/ OnClose(c)

RunnerStep(c) ==
    \/ Handle(c) \/ RunCgi(c) \/ OnRead(c) \/ OnExit(c) \/ OnPipeClosed(c)

ScriptStep(c) == ScriptWrites(c) \/ ScriptEnds(c)

Next == \E c \in Clients : ClientStep(c) \/ RunnerStep(c) \/ ScriptStep(c)

Spec == Init /\ [][Next]_vars

(***************************************************************************)
(* libuv reports the exit of a child and finishes a close, and the peer    *)
(* reads what it is sent.  Nothing makes the script end.                   *)
(***************************************************************************)
Fairness ==
    \A c \in Clients :
        WF_vars(OnExit(c)) /\ WF_vars(OnWritten(c)) /\ WF_vars(OnClose(c))

FairSpec == Spec /\ Fairness

----------------------------------------------------------------------------
(***************************************************************************)
(* Safety.                                                                 *)
(***************************************************************************)
(* While the pipe is open or the exit of the script is still to be         *)
(* reported, the client that both callbacks use exists, is open and was    *)
(* not asked to close (filehandler.cpp:328, 396, 402-405).                 *)
RunnerHasClient ==
    \A c \in Clients :
        Due(c) => c \in clients /\ conn[c].handle = "open" /\ ~conn[c].queued_close

(* The runner closes its client and its pipe once.  close does not test    *)
(* for a second call; it is the write end left open in this process that   *)
(* keeps the end of the pipe from being seen beside the exit               *)
(* (filehandler.cpp:321-326, 376-405).                                     *)
ClosedOnce == Running

(* All a script wrote was given to the client when its response ends       *)
(* gracefully ("redirect the output to the client", filehandler.cpp:286).  *)
OutputRelayed ==
    \A c \in Clients :
        conn[c].handle = "closing" => runner[c].relayed = runner[c].written

(* Even when scripts outlast their clients, a runner uses its Executor as  *)
(* ExecutorUser does: never spawned over a live child, its exit reported   *)
(* once (executor.cpp:29-45, 135-199, filehandler.cpp:376-405).            *)
User == INSTANCE ExecutorUser WITH
    Executors <- Clients,
    life <- [c \in Clients |-> IF runner[c].pc = "none" THEN "new" ELSE "made"]

ExecutorSpec == User!CarefulSpec

(***************************************************************************)
(* Liveness.                                                               *)
(***************************************************************************)
(* When the script ends, so does its connection (filehandler.cpp:402-405). *)
ScriptEndReleasesClient ==
    \A c \in Clients : (exec[c].child = "exited") ~> (c \notin clients)

=============================================================================
