---------------------------- MODULE ExecutorUser ----------------------------
(* An Executor under any user: spawned, spawned again, also over a live     *)
(* child, and destroyed at any time.                                        *)
EXTENDS Executor, Naturals

CONSTANT Executors

VARIABLES
    exec,               \* [Executors -> Exec]
    life                \* [Executors -> {"new", "made", "deleted"}]

vars == <<exec, life>>

Init ==
    /\ exec = [x \in Executors |-> NoExec]
    /\ life = [x \in Executors |-> "new"]

Become(x, e) == exec' = [exec EXCEPT ![x] = e]

Construct(x) ==
    /\ life[x] = "new"
    /\ life' = [life EXCEPT ![x] = "made"]
    /\ UNCHANGED exec

Spawn(x) ==
    /\ life[x] = "made"
    /\ \E e \in {Spawned(exec[x]), SpawnFails(exec[x])} : Become(x, e)
    /\ UNCHANGED life

Signal(x) ==
    /\ life[x] = "made"
    /\ Become(x, Kill(exec[x]))
    /\ UNCHANGED life

Ends(x) ==
    /\ exec[x].child = "running"
    /\ Become(x, ChildEnds(exec[x]))
    /\ UNCHANGED life

OnExit(x) ==
    /\ exec[x].child = "exited"
    /\ Become(x, ExitReported(exec[x]))
    /\ UNCHANGED life

Delete(x) ==
    /\ life[x] = "made"
    /\ life' = [life EXCEPT ![x] = "deleted"]
    /\ Become(x, Destroyed(exec[x]))

Other(x) == Construct(x) \/ Signal(x) \/ Ends(x) \/ OnExit(x) \/ Delete(x)

Step(x) == Spawn(x) \/ Other(x)

Next == \E x \in Executors : Step(x)

Spec == Init /\ [][Next]_vars

(* A user that never spawns over a live child.                              *)
CarefulStep(x) == (~exec[x].alive /\ Spawn(x)) \/ Other(x)

CarefulSpec == Init /\ [][\E x \in Executors : CarefulStep(x)]_vars

----------------------------------------------------------------------------
(* The process handle is kept for as long as libuv has a child on it, also *)
(* when the Executor was deleted first, and is given back when both are    *)
(* gone, unless a spawn over a live child has made the Executor forget it  *)
(* (executor.cpp:29-33, 127-132, 138-141).                                 *)
HandleFollowsChild ==
    \A x \in Executors : ~exec[x].overrun =>
        LET e == exec[x]
        IN  /\ e.child \in {"running", "exited"} => e.process = "held"
            /\ life[x] = "deleted" /\ e.child \in {"none", "reported"}
                   => e.process # "held"

=============================================================================
