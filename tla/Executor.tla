------------------------------ MODULE Executor ------------------------------
(***************************************************************************)
(* Executor (src/sources/executor.cpp): one script as a child process.     *)
(* Each method is an operator from the record of one object to its next    *)
(* record.  The child and libuv's handling of its exit are external.       *)
(***************************************************************************)

(***************************************************************************)
(*   process    the uv_process_t: not allocated, held, given back          *)
(*   data       process->data still points to the Executor                 *)
(*   alive      the field of the class                                     *)
(*   child      the process: none yet, running, exited and not yet         *)
(*              reported, reported                                         *)
(*   killed     SIGKILL was sent to it                                     *)
(*   overrun    a spawn used the handle again while it had a live child;   *)
(*              "child" is then the last one started (history)             *)
(***************************************************************************)
Exec == [process : {"none", "held", "back"}, data : BOOLEAN, alive : BOOLEAN,
         child : {"none", "running", "exited", "reported"}, killed : BOOLEAN,
         overrun : BOOLEAN]

NoExec == [process |-> "none", data |-> FALSE, alive |-> FALSE,
           child |-> "none", killed |-> FALSE, overrun |-> FALSE]

Kill(e) == [e EXCEPT !.killed = e.alive \/ e.killed]

(* The start of spawn: a live child is killed and forgotten, not waited    *)
(* for.                                                                    *)
Ready(e) ==
    IF e.alive THEN [Kill(e) EXCEPT !.alive = FALSE, !.overrun = TRUE] ELSE e

(* spawn, when the child could not be started and when it could.           *)
SpawnFails(e) == [Ready(e) EXCEPT !.process = "held", !.data = TRUE]
Spawned(e) ==
    [SpawnFails(e) EXCEPT !.alive = TRUE, !.child = "running", !.killed = FALSE]

(* __on_exit, called by libuv; context->onExit follows where data is set.  *)
ExitReported(e) ==
    IF e.data THEN [e EXCEPT !.alive = FALSE, !.child = "reported"]
              ELSE [e EXCEPT !.process = "back", !.child = "reported"]

(* slip: the handle is given back although its child lives                 *)
DestroyedAtOnce(e) ==
    [Kill(e) EXCEPT !.data = FALSE,
                    !.process = IF e.process = "held" THEN "back" ELSE @]

(* ~Executor: a live child is killed, and its exit gives the handle back.  *)
Destroyed(e) ==
    IF e.alive THEN [Kill(e) EXCEPT !.data = FALSE]
               ELSE [e EXCEPT !.process = IF @ = "held" THEN "back" ELSE @]

(* The child ends, by itself or by a signal.                               *)
ChildEnds(e) == [e EXCEPT !.child = "exited"]

=============================================================================
