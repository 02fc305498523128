------------------------------ MODULE ByteQueue ------------------------------
(***************************************************************************)
(* What a BufferPipe promises (src/shared/gemcaps/util.hpp): a first-in,   *)
(* first-out queue of bytes that can be closed for writing.                *)
(***************************************************************************)
EXTENDS Integers, Sequences

CONSTANT Bytes

VARIABLES
    queue,          \* bytes written and not yet read
    closed,
    out             \* bytes the last read returned

vars == <<queue, closed, out>>

Init ==
    /\ queue = <<>>
    /\ closed = FALSE
    /\ out = <<>>

(* Some bytes are put behind the others.                                   *)
Write ==
    /\ ~closed
    /\ queue' \in Seq(Bytes)
    /\ Len(queue') >= Len(queue)
    /\ \A i \in 1..Len(queue) : queue'[i] = queue[i]
    /\ UNCHANGED <<closed, out>>

Read ==
    /\ queue = out' \o queue'
    /\ UNCHANGED closed

Close ==
    /\ closed' = TRUE
    /\ UNCHANGED <<queue, out>>

Next == Write \/ Read \/ Close

Spec == Init /\ [][Next]_vars

=============================================================================
