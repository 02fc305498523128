----------------------------- MODULE BufferPipe -----------------------------
(***************************************************************************)
(* The byte pipe of src/sources/util.cpp: received bytes wait in one for   *)
(* wolfSSL, and the bytes of a response in another for the next send.  The *)
(* observer, which nobody sets, is left out.                               *)
(***************************************************************************)
EXTENDS Integers, Sequences

CONSTANTS
    Bytes,
    InitialSizes,       \* of the buffer; 0 is the default constructor
    MaxWrite,           \* bound: bytes of one write
    MaxQueued           \* bound: no write while more bytes are queued

Junk == "junk"          \* a byte nobody has written

ASSUME PipeAssumption ==
    /\ InitialSizes \in SUBSET Nat
    /\ MaxWrite \in Nat
    /\ MaxQueued \in Nat
    /\ Junk \notin Bytes

VARIABLES
    buffer,             \* the memory; buffer[i + 1] is the code's buffer[i]
    size, start, length, closed,
    out                 \* what the last read returned

vars == <<buffer, size, start, length, closed, out>>

Cells == Bytes \cup {Junk}

Init ==
    /\ size \in InitialSizes
    /\ buffer = [i \in 1..size |-> Junk]
    /\ start = 0
    /\ length = 0
    /\ closed = FALSE
    /\ out = <<>>

----------------------------------------------------------------------------
(* memcpy of the bytes s to offset at; what would fall outside is lost.    *)
Copied(mem, at, s) ==
    [i \in 1..Len(mem) |-> IF i - at \in 1..Len(s) THEN s[i - at] ELSE mem[i]]

(* The n bytes from offset at; what lies outside the memory is junk.       *)
Part(mem, at, n) ==
    [i \in 1..n |-> IF at + i \in 1..Len(mem) THEN mem[at + i] ELSE Junk]

(* The memory is replaced where the queue and len bytes exceed size, which *)
(* is not changed; the queue then begins at 0.                             *)
Grows(len) == length + len > size

Grown(len) ==
    IF Grows(len)
      THEN Copied([i \in 1..(length + len) |-> Junk], 0, Part(buffer, start, length))
      ELSE buffer

GrownStart(len) == IF Grows(len) THEN 0 ELSE start

(* The queue is moved to 0 where it would end beyond size otherwise.       *)
NeverMoves(len) == FALSE        \* slip: no room is made
Moves(len) == GrownStart(len) + length + len > size

Moved(len) ==
    IF Moves(len)
      THEN Copied(Grown(len), 0, Part(Grown(len), GrownStart(len), length))
      ELSE Grown(len)

MovedStart(len) == IF Moves(len) THEN 0 ELSE GrownStart(len)

Write(s) ==
    /\ ~closed
    /\ length <= MaxQueued
    /\ buffer' = Copied(Moved(Len(s)), MovedStart(Len(s)) + length, s)
    /\ start' = MovedStart(Len(s))
    /\ length' = length + Len(s)
    /\ UNCHANGED <<size, closed, out>>

ReadOf(n) == IF n > length THEN length ELSE n

ReadStays(n) ==                 \* slip: the bytes are not taken out
    /\ out' = Part(buffer, start, ReadOf(n))
    /\ length' = length - ReadOf(n)
    /\ UNCHANGED <<buffer, size, start, closed>>
Read(n) ==
    /\ out' = Part(buffer, start, ReadOf(n))
    /\ start' = start + ReadOf(n)
    /\ length' = length - ReadOf(n)
    /\ UNCHANGED <<buffer, size, closed>>

Close ==
    /\ closed' = TRUE
    /\ UNCHANGED <<buffer, size, start, length, out>>

Next ==
    \/ \E n \in 0..MaxWrite : \E s \in [1..n -> Bytes] : Write(s)
    \/ \E n \in 0..(MaxQueued + MaxWrite) : Read(n)
    \/ Close

Spec == Init /\ [][Next]_vars

----------------------------------------------------------------------------
TypeOK ==
    /\ buffer \in Seq(Cells)
    /\ size \in Nat /\ start \in Nat /\ length \in Nat
    /\ closed \in BOOLEAN
    /\ out \in Seq(Cells)

(* The queue lies inside the memory, so no copy touches what is not the    *)
(* pipe's, although size keeps its first value when the memory is replaced *)
(* (util.cpp:12-36).                                                       *)
InBounds == start + length <= Len(buffer)

(* The pipe is a first-in, first-out queue of bytes: nothing is lost,      *)
(* repeated or reordered by moving the queue about (util.cpp:12-45).       *)
Contents == Part(buffer, start, length)

Queue == INSTANCE ByteQueue WITH queue <- Contents

QueueSpec == Queue!Spec

=============================================================================
