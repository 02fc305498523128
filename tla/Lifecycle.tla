----------------------------- MODULE Lifecycle -----------------------------
(***************************************************************************)
(* What SSLClient promises to the code that uses it, without its flags,    *)
(* its timer or its write requests: a connection is opened once, a close   *)
(* waits until every write made before it is reported done (unless it is   *)
(* asked to close a second time), only a reset cuts a response short,      *)
(* nothing is written after the end, and the end is final.  SSLServer and  *)
(* GeminiServer implement it.                                              *)
(***************************************************************************)
EXTENDS Naturals

CONSTANT Clients        \* every connection that will ever be accepted

VARIABLES
    phase,              \* [Clients -> Phases]
    pending             \* [Clients -> Nat]: writes not yet reported done

vars == <<phase, pending>>

Phases == {"absent", "open", "draining", "closing", "cut", "gone"}

TypeOK ==
    /\ phase \in [Clients -> Phases]
    /\ pending \in [Clients -> Nat]

Init ==
    /\ phase = [c \in Clients |-> "absent"]
    /\ pending = [c \in Clients |-> 0]

(***************************************************************************)
(* One callback of the event loop may write several times, so the writes   *)
(* of one step are counted together.                                       *)
(***************************************************************************)
QueueUpTo(c) ==
    /\ pending'[c] \in Nat
    /\ pending'[c] >= pending[c]
    /\ pending' = [pending EXCEPT ![c] = pending'[c]]

Become(c, p) == phase' = [phase EXCEPT ![c] = p]
DropPending(c) == pending' = [pending EXCEPT ![c] = 0]

Open(c) ==
    /\ phase[c] = "absent"
    /\ Become(c, "open")
    /\ UNCHANGED pending

Queue(c) ==
    /\ phase[c] \in {"open", "draining"}
    /\ QueueUpTo(c)
    /\ UNCHANGED phase

(* The last write of a draining connection is what closes it.              *)
Flush(c) ==
    /\ phase[c] \in {"open", "draining"}
    /\ pending[c] > 0
    /\ pending' = [pending EXCEPT ![c] = @ - 1]
    /\ IF phase[c] = "draining" /\ pending[c] = 1
         THEN Become(c, "closing")
         ELSE UNCHANGED phase

(* A graceful close, with whatever the same callback wrote before it.      *)
Shut(c) ==
    /\ phase[c] = "open"
    /\ QueueUpTo(c)
    /\ Become(c, IF pending'[c] = 0 THEN "closing" ELSE "draining")

(* A second close of a connection that is still draining does not wait.    *)
Force(c) ==
    /\ phase[c] = "draining"
    /\ Become(c, "closing")
    /\ DropPending(c)

(* A reset; a connection nobody takes is reset as soon as it is accepted.  *)
Abort(c) ==
    /\ phase[c] \in {"absent", "open", "draining"}
    /\ Become(c, "cut")
    /\ DropPending(c)

Release(c) ==
    /\ phase[c] \in {"closing", "cut"}
    /\ Become(c, "gone")
    /\ UNCHANGED pending

Step(c) ==
    \/ Open(c) \/ Queue(c) \/ Flush(c) \/ Shut(c)
    \/ Force(c) \/ Abort(c) \/ Release(c)

Next == \E c \in Clients : Step(c)

Spec == Init /\ [][Next]_vars

=============================================================================
