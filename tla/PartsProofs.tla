--------------------------- MODULE PartsProofs ---------------------------
(***************************************************************************)
(* Theorems about the parts that work alone, but the way from a request to *)
(* a file, whose theorems are in RequestProofs.                            *)
(***************************************************************************)
EXTENDS Parts, SequenceTheorems, WellFoundedInduction, TLAPS

----------------------------------------------------------------------------
(***************************************************************************)
(* The pipe stays inside its memory and is a queue, for any bytes, sizes   *)
(* and lengths.                                                            *)
(***************************************************************************)

(* The queue is inside the memory, which is never smaller than size says,  *)
(* and holds only bytes that were written.                                 *)
PipeInv ==
    /\ TypeOK
    /\ InBounds
    /\ size <= Len(buffer)
    /\ \A i \in 1..length : buffer[start + i] \in Bytes

(* A function on 1..n is a sequence.                                       *)
LEMMA IsSeq ==
    ASSUME NEW S, NEW n \in Nat, NEW f \in [1..n -> S]
    PROVE  f \in Seq(S) /\ Len(f) = n
<1>1. f \in Seq(S)
  BY SeqDef
<1>2. Len(f) \in Nat /\ DOMAIN f = 1..Len(f) /\ DOMAIN f = 1..n
  BY <1>1, LenProperties
<1> QED
  BY <1>1, <1>2

LEMMA CopiedIs ==
    ASSUME NEW mem \in Seq(Cells), NEW at \in Nat, NEW s \in Seq(Cells)
    PROVE  /\ Copied(mem, at, s) \in Seq(Cells)
           /\ Len(Copied(mem, at, s)) = Len(mem)
           /\ \A i \in 1..Len(mem) : Copied(mem, at, s)[i] =
                 IF i - at \in 1..Len(s) THEN s[i - at] ELSE mem[i]
<1> DEFINE c == Copied(mem, at, s)
<1>1. /\ Len(mem) \in Nat /\ Len(s) \in Nat
      /\ \A i \in 1..Len(mem) : mem[i] \in Cells
      /\ \A i \in 1..Len(s) : s[i] \in Cells
  BY LenProperties, ElementOfSeq
<1>2. c \in [1..Len(mem) -> Cells]
  BY <1>1 DEF Copied
<1>3. \A i \in 1..Len(mem) : c[i] = IF i - at \in 1..Len(s) THEN s[i - at] ELSE mem[i]
  BY DEF Copied
<1> HIDE DEF c
<1> QED
  BY <1>1, <1>2, <1>3, IsSeq DEF c

LEMMA PartIs ==
    ASSUME NEW mem \in Seq(Cells), NEW at \in Nat, NEW n \in Nat, at + n <= Len(mem)
    PROVE  /\ Part(mem, at, n) \in Seq(Cells) /\ Len(Part(mem, at, n)) = n
           /\ \A i \in 1..n : Part(mem, at, n)[i] = mem[at + i]
<1> DEFINE p == Part(mem, at, n)
<1>1. /\ Len(mem) \in Nat
      /\ \A i \in 1..Len(mem) : mem[i] \in Cells
  BY LenProperties, ElementOfSeq
<1>2. \A i \in 1..n : at + i \in 1..Len(mem)
  BY <1>1
<1>3. \A i \in 1..n : p[i] = mem[at + i]
  BY <1>2 DEF Part
<1>4. p \in [1..n -> Cells]
  BY <1>1, <1>2 DEF Part
<1> HIDE DEF p
<1> QED
  BY <1>3, <1>4, IsSeq DEF p

(* The memory m holds the queue from offset at on.                         *)
Holds(m, at) ==
    /\ m \in Seq(Cells) /\ at \in Nat
    /\ at + length <= Len(m) /\ size <= Len(m)
    /\ \A i \in 1..length : m[at + i] = buffer[start + i]

LEMMA HoldsNow == PipeInv => Holds(buffer, start)
BY DEF PipeInv, TypeOK, InBounds, Holds

(* Moving the queue to offset 0 of memory that is large enough.            *)
LEMMA MovedHolds ==
    ASSUME length \in Nat, NEW m, NEW at, Holds(m, at),
           NEW n \in Seq(Cells), length <= Len(n), size <= Len(n)
    PROVE  Holds(Copied(n, 0, Part(m, at, length)), 0)
<1> DEFINE p == Part(m, at, length)
           c == Copied(n, 0, p)
<1>1. m \in Seq(Cells) /\ at \in Nat /\ at + length <= Len(m)
      /\ \A i \in 1..length : m[at + i] = buffer[start + i]
  BY DEF Holds
<1>2. p \in Seq(Cells) /\ Len(p) = length /\ \A i \in 1..length : p[i] = m[at + i]
  BY <1>1, PartIs
<1>3. Len(n) \in Nat
  BY LenProperties
<1> HIDE DEF p
<1>4. /\ c \in Seq(Cells) /\ Len(c) = Len(n)
      /\ \A i \in 1..Len(n) : c[i] = IF i - 0 \in 1..length THEN p[i - 0] ELSE n[i]
  BY <1>2, CopiedIs
<1> HIDE DEF c
<1>5. \A i \in 1..length : c[i] = p[i]
  <2> TAKE i \in 1..length
  <2>1. i \in 1..Len(n) /\ i - 0 = i
    BY <1>3
  <2> QED
    BY <1>4, <2>1
<1>6. \A i \in 1..length : c[0 + i] = buffer[start + i]
  BY <1>1, <1>2, <1>5
<1>7. Holds(c, 0)
  BY <1>3, <1>4, <1>6 DEF Holds
<1> QED
  BY <1>7 DEF c, p

(* Making room keeps the queue, and room for len bytes is made.            *)
LEMMA RoomIsMade ==
    ASSUME PipeInv, NEW len \in Nat
    PROVE  /\ Holds(Moved(len), MovedStart(len))
           /\ MovedStart(len) + length + len <= Len(Moved(len))
<1> DEFINE g == Grown(len)
           a == GrownStart(len)
           z == [i \in 1..(length + len) |-> Junk]
<1>1. length \in Nat /\ size \in Nat /\ start \in Nat
  BY DEF PipeInv, TypeOK
<1>2. Holds(g, a) /\ (Grows(len) => Len(g) = length + len /\ a = 0)
  <2>1. CASE Grows(len)
    <3>1. z \in [1..(length + len) -> Cells] /\ length + len \in Nat
      BY <1>1 DEF Cells
    <3> HIDE DEF z
    <3>2. z \in Seq(Cells) /\ Len(z) = length + len
      BY <3>1, IsSeq
    <3>3. size <= Len(z) /\ length <= Len(z)
      BY <1>1, <2>1, <3>2 DEF Grows
    <3>4. Holds(Copied(z, 0, Part(buffer, start, length)), 0)
      BY <1>1, <3>2, <3>3, HoldsNow, MovedHolds
    <3>5. Part(buffer, start, length) \in Seq(Cells)
      BY <1>1, HoldsNow, PartIs DEF Holds
    <3>6. Len(Copied(z, 0, Part(buffer, start, length))) = length + len
      BY <3>2, <3>5, CopiedIs
    <3> QED
      BY <2>1, <3>4, <3>6 DEF Grown, GrownStart, z
  <2>2. CASE ~Grows(len)
    BY <2>2, HoldsNow DEF Grown, GrownStart
  <2> QED
    BY <2>1, <2>2
<1>3. a \in Nat /\ g \in Seq(Cells) /\ Len(g) \in Nat
      /\ a + length <= Len(g) /\ size <= Len(g)
  BY <1>2, LenProperties DEF Holds
<1> HIDE DEF g, a
<1>4. CASE Moves(len)
  <2> DEFINE p == Part(g, a, length)
             c == Copied(g, 0, p)
  <2>1. length <= Len(g)
    BY <1>1, <1>3
  <2>2. Holds(c, 0)
    BY <1>1, <1>2, <1>3, <2>1, MovedHolds
  <2>3. p \in Seq(Cells)
    BY <1>1, <1>3, PartIs
  <2>4. Len(c) = Len(g)
    BY <1>3, <2>3, CopiedIs
  <2>5. length + len <= Len(g)
    BY <1>1, <1>2, <1>3 DEF Grows
  <2>6. Moved(len) = c /\ MovedStart(len) = 0
    BY <1>4 DEF Moved, MovedStart, g, a
  <2> HIDE DEF c, p
  <2> QED
    BY <1>1, <2>2, <2>4, <2>5, <2>6
<1>5. CASE ~Moves(len)
  <2>1. Moved(len) = g /\ MovedStart(len) = a
    BY <1>5 DEF Moved, MovedStart, g, a
  <2>2. a + length + len <= size
    BY <1>1, <1>3, <1>5 DEF Moves, a
  <2> QED
    BY <1>1, <1>2, <1>3, <2>1, <2>2
<1> QED
  BY <1>4, <1>5

----------------------------------------------------------------------------
(* A part of the memory that holds written bytes, as a sequence.           *)
LEMMA PartOfBytes ==
    ASSUME NEW mem \in Seq(Cells), NEW at \in Nat, NEW n \in Nat, at + n <= Len(mem),
           \A i \in 1..n : mem[at + i] \in Bytes
    PROVE  /\ Part(mem, at, n) \in Seq(Bytes) /\ Len(Part(mem, at, n)) = n
           /\ \A i \in 1..n : Part(mem, at, n)[i] = mem[at + i]
<1> DEFINE p == Part(mem, at, n)
<1>1. /\ p \in Seq(Cells) /\ Len(p) = n
      /\ \A i \in 1..n : p[i] = mem[at + i]
  BY PartIs
<1> HIDE DEF p
<1>2. p \in [1..n -> Bytes]
  BY <1>1, LenProperties
<1> QED
  BY <1>1, <1>2, IsSeq DEF p

(* The queue as a sequence.                                                *)
LEMMA ContentsIs ==
    ASSUME PipeInv
    PROVE  /\ Contents \in Seq(Bytes) /\ Len(Contents) = length
           /\ \A i \in 1..length : Contents[i] = buffer[start + i]
BY PartOfBytes DEF PipeInv, TypeOK, InBounds, Contents

LEMMA WriteKeeps ==
    ASSUME PipeInv, NEW n \in Nat, NEW s \in [1..n -> Bytes], Write(s)
    PROVE  /\ PipeInv'
           /\ length' >= length
           /\ \A i \in 1..length : buffer'[start' + i] = buffer[start + i]
<1> DEFINE v == Moved(n)
           a == MovedStart(n)
<1>1. s \in Seq(Bytes) /\ Len(s) = n
  BY IsSeq
<1>2. s \in Seq(Cells)
  BY <1>1, SeqMonotonic DEF Cells
<1>3. Holds(v, a) /\ a + length + n <= Len(v)
  BY RoomIsMade
<1>4. /\ buffer' = Copied(v, a + length, s) /\ start' = a /\ length' = length + n
      /\ size' = size /\ closed' = closed /\ out' = out
  BY <1>1 DEF Write
<1> HIDE DEF v, a
<1>5. /\ length \in Nat /\ size \in Nat /\ a \in Nat
      /\ v \in Seq(Cells) /\ Len(v) \in Nat /\ size <= Len(v)
      /\ \A i \in 1..length : v[a + i] = buffer[start + i]
  BY <1>3, LenProperties DEF PipeInv, TypeOK, Holds
<1>6. /\ buffer' \in Seq(Cells) /\ Len(buffer') = Len(v)
      /\ \A i \in 1..Len(v) : buffer'[i] =
            IF i - (a + length) \in 1..Len(s) THEN s[i - (a + length)] ELSE v[i]
  <2>1. a + length \in Nat
    BY <1>5
  <2> DEFINE w == Copied(v, a + length, s)
  <2>2. /\ w \in Seq(Cells) /\ Len(w) = Len(v)
        /\ \A i \in 1..Len(v) : w[i] =
              IF i - (a + length) \in 1..Len(s) THEN s[i - (a + length)] ELSE v[i]
    BY <1>2, <1>5, <2>1, CopiedIs
  <2>3. buffer' = w
    BY <1>4
  <2> HIDE DEF w
  <2> QED
    BY <2>2, <2>3
<1>7. ASSUME NEW i \in 1..length
      PROVE  buffer'[start' + i] = buffer[start + i]
  <2>1. a + i \in 1..Len(v) /\ ~(a + i - (a + length) \in 1..n)
    BY <1>3, <1>5
  <2> QED
    BY <1>1, <1>4, <1>5, <1>6, <2>1
<1>8. ASSUME NEW i \in 1..(length + n)
      PROVE  buffer'[start' + i] \in Bytes
  <2>1. CASE i <= length
    <3>1. i \in 1..length
      BY <1>5, <2>1
    <3> QED
      BY <1>7, <3>1 DEF PipeInv
  <2>2. CASE ~(i <= length)
    <3> DEFINE j == a + i
               e == j - (a + length)
    <3>1. /\ j \in 1..Len(v) /\ e = i - length /\ i - length \in 1..n
      BY <1>3, <1>5, <2>2
    <3>2. buffer'[j] = IF e \in 1..Len(s) THEN s[e] ELSE v[j]
      BY <1>6, <3>1
    <3> HIDE DEF e
    <3>4. buffer'[j] = s[i - length]
      BY <1>1, <3>1, <3>2
    <3>3. s[i - length] \in Bytes
      BY <3>1
    <3> QED
      BY <1>4, <3>3, <3>4
  <2> QED
    BY <2>1, <2>2
<1>9. TypeOK'
  BY <1>4, <1>5, <1>6 DEF PipeInv, TypeOK
<1>10. InBounds' /\ (size <= Len(buffer))'
  BY <1>3, <1>4, <1>5, <1>6 DEF InBounds
<1>11. PipeInv'
  BY <1>4, <1>8, <1>9, <1>10 DEF PipeInv
<1> QED
  BY <1>4, <1>5, <1>7, <1>11

LEMMA ReadKeeps ==
    ASSUME PipeInv, NEW n \in Nat, Read(n)
    PROVE  /\ PipeInv'
           /\ ReadOf(n) \in 0..length /\ length' = length - ReadOf(n)
           /\ Len(out') = ReadOf(n) /\ out' \in Seq(Bytes)
           /\ \A i \in 1..ReadOf(n) : out'[i] = buffer[start + i]
           /\ \A i \in 1..length' : buffer'[start' + i] = buffer[start + ReadOf(n) + i]
<1> DEFINE m == ReadOf(n)
<1>1. /\ buffer \in Seq(Cells) /\ Len(buffer) \in Nat /\ start \in Nat /\ length \in Nat
      /\ start + length <= Len(buffer)
  BY LenProperties DEF PipeInv, TypeOK, InBounds
<1>2. m \in Nat /\ m <= length
  BY <1>1 DEF ReadOf
<1>3. /\ out' = Part(buffer, start, m) /\ start' = start + m /\ length' = length - m
      /\ buffer' = buffer /\ size' = size /\ closed' = closed
  BY DEF Read
<1> HIDE DEF m
<1>4. /\ out' \in Seq(Cells) /\ Len(out') = m
      /\ \A i \in 1..m : out'[i] = buffer[start + i]
  <2>1. start + m <= Len(buffer)
    BY <1>1, <1>2
  <2> QED
    BY <1>1, <1>2, <1>3, <2>1, PartIs
<1>5. out' \in Seq(Bytes)
  <2>1. \A i \in 1..m : out'[i] \in Bytes
    BY <1>1, <1>2, <1>4 DEF PipeInv
  <2>2. out' \in [1..m -> Bytes]
    BY <1>4, <2>1, LenProperties
  <2> QED
    BY <1>2, <2>2, IsSeq
<1>6. ASSUME NEW i \in 1..length'
      PROVE  /\ buffer'[start' + i] = buffer[start + m + i]
             /\ buffer'[start' + i] \in Bytes
  <2>1. m + i \in 1..length /\ start + m + i = start + (m + i)
    BY <1>1, <1>2, <1>3
  <2> QED
    BY <1>3, <2>1 DEF PipeInv
<1>7. TypeOK'
  BY <1>1, <1>2, <1>3, <1>4 DEF PipeInv, TypeOK
<1>8. InBounds' /\ (size <= Len(buffer))'
  BY <1>1, <1>2, <1>3 DEF PipeInv, InBounds
<1>9. PipeInv'
  BY <1>6, <1>7, <1>8 DEF PipeInv
<1>10. m \in 0..length
  BY <1>1, <1>2
<1> QED
  BY <1>3, <1>4, <1>5, <1>6, <1>9, <1>10 DEF m

LEMMA PipeInitInv == Init => PipeInv
<1> SUFFICES ASSUME Init PROVE PipeInv
  OBVIOUS
<1>1. size \in Nat /\ buffer = [i \in 1..size |-> Junk]
  BY PipeAssumption DEF Init
<1>2. buffer \in [1..size -> Cells]
  BY <1>1 DEF Cells
<1>3. buffer \in Seq(Cells) /\ Len(buffer) = size
  BY <1>1, <1>2, IsSeq
<1>4. out \in Seq(Cells) /\ start = 0 /\ length = 0 /\ closed = FALSE
  BY DEF Init
<1>5. TypeOK
  BY <1>1, <1>3, <1>4 DEF TypeOK
<1>6. InBounds /\ size <= Len(buffer)
  BY <1>1, <1>3, <1>4 DEF InBounds
<1> QED
  BY <1>4, <1>5, <1>6 DEF PipeInv

(* A step of the pipe, seen from its user.                                 *)
LEMMA PipeStepInv == PipeInv /\ [Next]_vars => PipeInv'
<1> SUFFICES ASSUME PipeInv, [Next]_vars PROVE PipeInv'
  OBVIOUS
<1>1. CASE \E n \in 0..MaxWrite : \E s \in [1..n -> Bytes] : Write(s)
  <2>1. PICK n \in 0..MaxWrite : \E s \in [1..n -> Bytes] : Write(s)
    BY <1>1
  <2>2. n \in Nat
    BY PipeAssumption
  <2> QED
    BY <2>1, <2>2, WriteKeeps
<1>2. CASE \E n \in 0..(MaxQueued + MaxWrite) : Read(n)
  <2>1. PICK n \in 0..(MaxQueued + MaxWrite) : Read(n)
    BY <1>2
  <2>2. n \in Nat
    BY PipeAssumption
  <2> QED
    BY <2>1, <2>2, ReadKeeps
<1>3. CASE Close
  BY <1>3 DEF Close, PipeInv, TypeOK, InBounds
<1>4. CASE UNCHANGED vars
  BY <1>4 DEF vars, PipeInv, TypeOK, InBounds
<1> QED
  BY <1>1, <1>2, <1>3, <1>4 DEF Next

LEMMA PipeInductive == Spec => []PipeInv
BY PipeInitInv, PipeStepInv, PTL DEF Spec

(* No copy of write or read leaves the memory of the pipe.                 *)
THEOREM StaysInBounds == Spec => []InBounds
<1>1. PipeInv => InBounds
  BY DEF PipeInv
<1> QED
  BY <1>1, PipeInductive, PTL

(* The pipe is a first-in, first-out queue of the bytes written: whatever  *)
(* moving and replacing its memory does, none is lost, repeated or out of  *)
(* order.                                                                  *)
THEOREM IsAQueue == Spec => QueueSpec
<1>1. Init => Queue!Init
  <2> SUFFICES ASSUME Init PROVE Queue!Init
    OBVIOUS
  <2>1. Contents \in Seq(Bytes) /\ Len(Contents) = 0
    BY PipeInitInv, ContentsIs DEF Init
  <2>2. Contents = <<>>
    BY <2>1, EmptySeq
  <2> QED
    BY <2>2 DEF Init, Queue!Init
<1>2. PipeInv /\ [Next]_vars => [Queue!Next]_(Queue!vars)
  <2> SUFFICES ASSUME PipeInv, [Next]_vars PROVE [Queue!Next]_(Queue!vars)
    OBVIOUS
  <2>1. PipeInv' /\ PipeInv
    BY PipeStepInv
  <2>2. /\ Contents \in Seq(Bytes) /\ Len(Contents) = length /\ length \in Nat
        /\ \A i \in 1..length : Contents[i] = buffer[start + i]
    BY <2>1, ContentsIs DEF PipeInv, TypeOK
  <2>3. /\ Contents' \in Seq(Bytes) /\ Len(Contents') = length' /\ length' \in Nat
        /\ \A i \in 1..length' : Contents'[i] = buffer'[start' + i]
    BY <2>1, PartOfBytes DEF PipeInv, TypeOK, InBounds, Contents
  <2>4. ASSUME NEW n \in 0..MaxWrite, NEW s \in [1..n -> Bytes], Write(s)
        PROVE  Queue!Write
    <3>1. n \in Nat
      BY PipeAssumption
    <3>2. /\ length' >= length
          /\ \A i \in 1..length : buffer'[start' + i] = buffer[start + i]
      BY <2>4, <3>1, WriteKeeps
    <3>3. \A i \in 1..length : i \in 1..length'
      BY <2>2, <2>3, <3>2
    <3>4. \A i \in 1..length : Contents'[i] = Contents[i]
      BY <2>2, <2>3, <3>2, <3>3
    <3> QED
      BY <2>2, <2>3, <2>4, <3>2, <3>4 DEF Queue!Write, Write
  <2>5. ASSUME NEW n \in 0..(MaxQueued + MaxWrite), Read(n)
        PROVE  Queue!Read
    <3> DEFINE m == ReadOf(n)
    <3>1. n \in Nat
      BY PipeAssumption
    <3>2. /\ m \in 0..length /\ length' = length - m
          /\ Len(out') = m /\ out' \in Seq(Bytes)
          /\ \A i \in 1..m : out'[i] = buffer[start + i]
          /\ \A i \in 1..length' : buffer'[start' + i] = buffer[start + m + i]
      BY <2>5, <3>1, ReadKeeps
    <3> DEFINE c == out' \o Contents'
    <3> HIDE DEF m
    <3>3. /\ c \in Seq(Bytes) /\ Len(c) = m + length'
          /\ \A i \in 1..(m + length') : c[i] =
                IF i <= m THEN out'[i] ELSE Contents'[i - m]
      BY <2>3, <3>2, ConcatProperties
    <3> HIDE DEF c
    <3>4. Len(c) = Len(Contents)
      BY <2>2, <2>3, <3>2, <3>3
    <3>5. ASSUME NEW i \in 1..Len(Contents)
          PROVE  Contents[i] = c[i]
      <4>1. CASE i <= m
        <5>1. i \in 1..m /\ i \in 1..length /\ i \in 1..(m + length')
          BY <2>2, <2>3, <3>2, <4>1
        <5> QED
          BY <2>2, <3>2, <3>3, <4>1, <5>1
      <4>2. CASE ~(i <= m)
        <5> DEFINE j == i - m
        <5>1. /\ j \in 1..length' /\ i \in 1..length /\ i \in 1..(m + length')
              /\ start + m + j = start + i
          BY <2>1, <2>2, <2>3, <3>2, <4>2 DEF PipeInv, TypeOK
        <5>2. c[i] = Contents'[j]
          BY <3>3, <4>2, <5>1
        <5> HIDE DEF j
        <5> QED
          BY <2>2, <2>3, <3>2, <5>1, <5>2
      <4> QED
        BY <4>1, <4>2
    <3>6. Contents = c
      BY <2>2, <3>3, <3>4, <3>5, SeqEqual
    <3> QED
      BY <2>5, <3>6 DEF Queue!Read, Read, c
  <2>6. CASE Close
    BY <2>6 DEF Close, Queue!Next, Queue!Close, Contents
  <2>7. CASE UNCHANGED vars
    BY <2>7 DEF vars, Queue!vars, Contents
  <2> QED
    BY <2>4, <2>5, <2>6, <2>7 DEF Next, Queue!Next
<1> QED
  BY <1>1, <1>2, PipeInductive, PTL DEF Spec, QueueSpec, Queue!Spec

----------------------------------------------------------------------------
(***************************************************************************)
(* The allocator, for any set of chunks and any alloc_size.                *)
(***************************************************************************)

(* The history agrees with the allocator's own lists.                       *)
Owned == \A x \in Items : owners[x] = IF x \in in_use THEN 1 ELSE 0

PoolInv == AllocatorTypeOK /\ Accounted /\ NoIdleChunk /\ Owned

USE AllocatorAssumption

(* An item belongs to one chunk, and is an item of the allocator if that    *)
(* chunk is.                                                                *)
LEMMA ItemsByChunk ==
    /\ \A ch \in Chunks \cup {Stack} : ItemsOf(ch) \subseteq Items
    /\ \A ch : \A x \in ItemsOf(ch) : x[1] = ch /\ x \in ItemsOf(x[1])
    /\ \A x \in Items : x[1] \in Chunks \cup {Stack} /\ x \in ItemsOf(x[1])
    /\ \A x \in Items \ ItemsOf(Stack) : x[1] \in Chunks
    /\ \A ch \in Chunks : ItemsOf(ch) \cap ItemsOf(Stack) = {}
  BY DEF ItemsOf, Items

LEMMA PoolInitInv == AllocatorInit => PoolInv
<1> SUFFICES ASSUME AllocatorInit PROVE PoolInv
  OBVIOUS
<1>1. ItemsOf(Stack) \subseteq Items
  BY ItemsByChunk
<1>2. AllocatorTypeOK /\ Owned
  BY <1>1 DEF AllocatorInit, AllocatorTypeOK, Owned
<1>3. Accounted /\ NoIdleChunk
  BY DEF AllocatorInit, Accounted, NoIdleChunk
<1> QED BY <1>2, <1>3 DEF PoolInv

(* What handing out an item does to the history.                            *)
LEMMA HandsOut ==
    ASSUME PoolInv, NEW x \in Items, x \notin in_use, HandOut(x)
    PROVE  /\ owners' \in [Items -> Nat] /\ Owned'
           /\ in_use' \subseteq Items
           /\ Users!Take(x)
<1>1. owners[x] = 0
  BY DEF PoolInv, Owned
<1>2. owners' = [owners EXCEPT ![x] = 1]
  BY <1>1 DEF HandOut, PoolInv, AllocatorTypeOK
<1> QED BY <1>1, <1>2 DEF HandOut, PoolInv, AllocatorTypeOK, Owned, Users!Take

LEMMA AllocateInv == ASSUME PoolInv, Allocate PROVE PoolInv' /\ [Users!Next]_owners
<1>1. PICK x \in avail : /\ avail \cap ItemsOf(Stack) # {} => x \in ItemsOf(Stack)
                         /\ avail' = avail \ {x}
                         /\ HandOut(x)
                         /\ UNCHANGED heap
  BY DEF Allocate
<1>2. x \in Items /\ x \notin in_use
  BY DEF PoolInv, AllocatorTypeOK, Accounted
<1>3. /\ owners' \in [Items -> Nat] /\ Owned' /\ in_use' \subseteq Items
      /\ Users!Take(x)
  BY <1>1, <1>2, HandsOut
<1>4. AllocatorTypeOK'
  BY <1>1, <1>3 DEF PoolInv, AllocatorTypeOK
<1>5. Accounted' /\ NoIdleChunk'
  BY <1>1 DEF PoolInv, Accounted, NoIdleChunk, HandOut
<1> QED BY <1>2, <1>3, <1>4, <1>5 DEF PoolInv, Users!Next

LEMMA AllocateChunkInv ==
    ASSUME PoolInv, AllocateChunk PROVE PoolInv' /\ [Users!Next]_owners
<1>1. PICK ch \in Chunks \ heap : \E x \in ItemsOf(ch) :
          /\ heap' = heap \cup {ch}
          /\ avail' = ItemsOf(ch) \ {x}
          /\ HandOut(x)
  BY DEF AllocateChunk
<1>2. PICK x \in ItemsOf(ch) : /\ heap' = heap \cup {ch}
                               /\ avail' = ItemsOf(ch) \ {x}
                               /\ HandOut(x)
  BY <1>1
<1>3. avail = {}
  BY DEF AllocateChunk
<1>4. x \in Items /\ x[1] = ch
  BY <1>2, ItemsByChunk
<1>5. \A y \in in_use : y \notin ItemsOf(ch)
  <2> SUFFICES ASSUME NEW y \in in_use, y \in ItemsOf(ch) PROVE FALSE
    OBVIOUS
  <2>1. PICK d \in heap \cup {Stack} : y \in ItemsOf(d)
    BY DEF PoolInv, Accounted
  <2>2. y[1] = d /\ y[1] = ch
    BY <2>1, ItemsByChunk
  <2> QED BY <2>1, <2>2
<1>6. /\ owners' \in [Items -> Nat] /\ Owned' /\ in_use' \subseteq Items
      /\ Users!Take(x)
  BY <1>2, <1>4, <1>5, HandsOut
<1>7. AllocatorTypeOK'
  BY <1>2, <1>6, ItemsByChunk DEF PoolInv, AllocatorTypeOK
<1>8. Accounted'
  BY <1>2, <1>3, <1>5 DEF PoolInv, Accounted, HandOut
<1>9. NoIdleChunk'
  BY <1>2 DEF PoolInv, NoIdleChunk, HandOut
<1> QED BY <1>4, <1>6, <1>7, <1>8, <1>9 DEF PoolInv, Users!Next

LEMMA DeallocateInv ==
    ASSUME PoolInv, NEW x \in Items, Deallocate(x)
    PROVE  PoolInv' /\ [Users!Next]_owners
<1>1. x \in in_use /\ in_use' = in_use \ {x} /\ owners[x] = 1
  BY DEF Deallocate, DeallocateStack, DeallocateHeap, PoolInv, Owned
<1>2. owners' = [owners EXCEPT ![x] = 0]
  BY <1>1 DEF Deallocate
<1>3. Owned' /\ owners' \in [Items -> Nat] /\ Users!Give(x)
  BY <1>1, <1>2 DEF PoolInv, AllocatorTypeOK, Owned, Users!Give
<1>4. x \notin avail /\ x \in UNION {ItemsOf(ch) : ch \in heap \cup {Stack}}
  BY <1>1 DEF PoolInv, Accounted
<1>5. CASE DeallocateStack(x)
  <2>1. AllocatorTypeOK'
    BY <1>1, <1>3, <1>5 DEF DeallocateStack, PoolInv, AllocatorTypeOK
  <2>2. Accounted'
    BY <1>4, <1>5 DEF DeallocateStack, PoolInv, Accounted
  <2>3. NoIdleChunk'
    <3> SUFFICES ASSUME NEW ch \in heap PROVE in_use' \cap ItemsOf(ch) # {}
      BY <1>5 DEF DeallocateStack, NoIdleChunk
    <3>1. x \notin ItemsOf(ch)
      BY <1>5, ItemsByChunk DEF DeallocateStack, PoolInv, AllocatorTypeOK
    <3> QED BY <1>1, <3>1 DEF PoolInv, NoIdleChunk
  <2> QED BY <1>3, <2>1, <2>2, <2>3 DEF PoolInv, Users!Next
<1>6. CASE DeallocateHeap(x)
  <2>1. x[1] \in heap /\ x \in ItemsOf(x[1])
    <3>1. PICK d \in heap \cup {Stack} : x \in ItemsOf(d)
      BY <1>4
    <3> QED BY <1>6, <3>1, ItemsByChunk DEF DeallocateHeap
  <2>2. CASE LastItem(x)
    <3>1. heap' = heap \ {x[1]} /\ avail' = avail \ ItemsOf(x[1])
      BY <1>6, <2>2 DEF DeallocateHeap
    <3>2. \A y \in in_use' : y \notin ItemsOf(x[1])
      BY <1>1, <2>2 DEF LastItem, PoolInv, Accounted
    <3>3. \A ch \in heap' \cup {Stack} : ItemsOf(ch) \cap ItemsOf(x[1]) = {}
      <4> SUFFICES ASSUME NEW ch \in heap' \cup {Stack}, NEW y \in ItemsOf(ch),
                          y \in ItemsOf(x[1])
                   PROVE  FALSE
        OBVIOUS
      <4>1. y[1] = ch /\ y[1] = x[1]
        BY ItemsByChunk
      <4> QED BY <2>1, <3>1, <4>1 DEF PoolInv, AllocatorTypeOK
    <3>4. avail' \cup in_use' = UNION {ItemsOf(ch) : ch \in heap' \cup {Stack}}
      <4>1. avail' \cup in_use' \subseteq UNION {ItemsOf(ch) : ch \in heap' \cup {Stack}}
        <5> SUFFICES ASSUME NEW y \in avail' \cup in_use'
                     PROVE  \E ch \in heap' \cup {Stack} : y \in ItemsOf(ch)
          OBVIOUS
        <5>1. y \notin ItemsOf(x[1]) /\ y \in avail \cup in_use
          BY <1>1, <3>1, <3>2
        <5>2. PICK ch \in heap \cup {Stack} : y \in ItemsOf(ch)
          BY <5>1 DEF PoolInv, Accounted
        <5> QED BY <3>1, <5>1, <5>2
      <4>2. ASSUME NEW ch \in heap' \cup {Stack}, NEW y \in ItemsOf(ch)
            PROVE  y \in avail' \cup in_use'
        <5>1. y \in avail \cup in_use
          BY <3>1 DEF PoolInv, Accounted
        <5>2. y \notin ItemsOf(x[1])
          BY <3>3, <4>2
        <5> QED BY <1>1, <2>1, <3>1, <5>1, <5>2
      <4> QED BY <4>1, <4>2
    <3>5. Accounted'
      BY <1>1, <3>1, <3>4 DEF PoolInv, Accounted
    <3>6. NoIdleChunk'
      <4> SUFFICES ASSUME NEW ch \in heap' PROVE in_use' \cap ItemsOf(ch) # {}
        BY DEF NoIdleChunk
      <4>1. x \notin ItemsOf(ch)
        BY <3>1, ItemsByChunk
      <4> QED BY <1>1, <3>1, <4>1 DEF PoolInv, NoIdleChunk
    <3>7. AllocatorTypeOK'
      BY <1>1, <1>3, <3>1 DEF PoolInv, AllocatorTypeOK
    <3> QED BY <1>3, <3>5, <3>6, <3>7 DEF PoolInv, Users!Next
  <2>3. CASE ~LastItem(x)
    <3>1. heap' = heap /\ avail' = avail \cup {x}
      BY <1>6, <2>3 DEF DeallocateHeap
    <3>2. Accounted' /\ AllocatorTypeOK'
      BY <1>1, <1>3, <1>4, <3>1 DEF PoolInv, AllocatorTypeOK, Accounted
    <3>3. NoIdleChunk'
      <4> SUFFICES ASSUME NEW ch \in heap PROVE in_use' \cap ItemsOf(ch) # {}
        BY <3>1 DEF NoIdleChunk
      <4>1. CASE ch = x[1]
        <5>1. PICK y \in ItemsOf(x[1]) : y \notin avail \cup {x}
          BY <2>3 DEF LastItem
        <5>2. y \in in_use
          BY <2>1, <5>1 DEF PoolInv, Accounted
        <5> QED BY <1>1, <4>1, <5>1, <5>2
      <4>2. CASE ch # x[1]
        <5>1. x \notin ItemsOf(ch)
          BY <4>2, ItemsByChunk
        <5> QED BY <1>1, <5>1 DEF PoolInv, NoIdleChunk
      <4> QED BY <4>1, <4>2
    <3> QED BY <1>3, <3>1, <3>2, <3>3 DEF PoolInv, Users!Next
  <2> QED BY <2>2, <2>3
<1> QED BY <1>5, <1>6 DEF Deallocate

LEMMA PoolStepInv == PoolInv /\ [AllocatorNext]_allocatorVars => PoolInv' /\ [Users!Next]_owners
<1> SUFFICES ASSUME PoolInv, [AllocatorNext]_allocatorVars PROVE PoolInv' /\ [Users!Next]_owners
  OBVIOUS
<1>1. CASE Allocate
  BY <1>1, AllocateInv
<1>2. CASE AllocateChunk
  BY <1>2, AllocateChunkInv
<1>3. CASE \E x \in Items : Deallocate(x)
  BY <1>3, DeallocateInv
<1>4. CASE UNCHANGED allocatorVars
  BY <1>4 DEF allocatorVars, PoolInv, AllocatorTypeOK, Accounted, NoIdleChunk, Owned
<1> QED BY <1>1, <1>2, <1>3, <1>4 DEF AllocatorNext

LEMMA PoolInductive == AllocatorSpec => []PoolInv
  BY PoolInitInv, PoolStepInv, PTL DEF AllocatorSpec

(* What is in use, on offer and allocated is made of the allocator's items  *)
(* (util.hpp:149-157).                                                      *)
THEOREM PoolTyped == AllocatorSpec => []AllocatorTypeOK
  BY PoolInductive, PTL DEF PoolInv

(* No memory in use is freed or offered again, and none is lost             *)
(* (util.hpp:205-219).                                                      *)
THEOREM NothingLost == AllocatorSpec => []Accounted
  BY PoolInductive, PTL DEF PoolInv

(* A chunk of the heap lives as long as one of its items is used            *)
(* (util.hpp:213-216).                                                      *)
THEOREM ChunksAreUsed == AllocatorSpec => []NoIdleChunk
  BY PoolInductive, PTL DEF PoolInv

(* Items of the heap are handed out only when the constructed ones are all  *)
(* in use (util.hpp:178-196).                                               *)
THEOREM HeapIsLastResort == AllocatorSpec => RawOnlyWhenFull
<1> DEFINE Good == \A x \in in_use' \ in_use :
                      x \in ItemsOf(Stack) \/ ItemsOf(Stack) \subseteq in_use
<1>1. PoolInv /\ [AllocatorNext]_allocatorVars => [Good]_allocatorVars
  <2> SUFFICES ASSUME PoolInv, [AllocatorNext]_allocatorVars, NEW x \in in_use' \ in_use,
                      x \notin ItemsOf(Stack)
               PROVE  ItemsOf(Stack) \subseteq in_use
    OBVIOUS
  <2>1. avail \cap ItemsOf(Stack) = {}
    <3>1. CASE Allocate
      BY <3>1 DEF Allocate, HandOut
    <3>2. CASE AllocateChunk
      BY <3>2 DEF AllocateChunk
    <3>3. CASE \E y \in Items : Deallocate(y)
      BY <3>3 DEF Deallocate, DeallocateStack, DeallocateHeap
    <3>4. CASE UNCHANGED allocatorVars
      BY <3>4 DEF allocatorVars
    <3> QED BY <3>1, <3>2, <3>3, <3>4 DEF AllocatorNext
  <2> QED BY <2>1 DEF PoolInv, Accounted
<1> QED BY <1>1, PoolInductive, PTL DEF AllocatorSpec, RawOnlyWhenFull

(* The allocator is a Pool: an item has at most one owner at a time         *)
(* (util.hpp:172-220).                                                      *)
THEOREM IsPool == AllocatorSpec => PoolSpec
<1>1. AllocatorInit => Users!Init
  BY DEF AllocatorInit, Users!Init
<1> QED BY <1>1, PoolInductive, PoolStepInv, PTL DEF AllocatorSpec, PoolSpec, Users!Spec

HIDE AllocatorAssumption

(* Side by side with the others, the pipe and the allocator behave as they *)
(* do alone, so what is proved of them alone holds there.                  *)
THEOREM SideBySide == PartsSpec => Spec /\ AllocatorSpec
<1>1. PartsInit => Init /\ AllocatorInit
  BY DEF PartsInit, PipeRests
<1>2. [PartsNext]_<<part, vars, pool, child, startup, capsule, mime>>
        => [Next]_vars /\ [AllocatorNext]_allocatorVars
  BY DEF PartsNext, pool
<1> QED BY <1>1, <1>2, PTL DEF PartsSpec, Spec, AllocatorSpec

----------------------------------------------------------------------------
(***************************************************************************)
(* An Executor, for any number of them and whatever the user does.  What   *)
(* is said of it holds until a spawn over a live child; that is never      *)
(* forgotten.                                                              *)
(***************************************************************************)

Lives(c) == c \in {"running", "exited"}

(* alive is the code's view of a child whose exit is still to come; the    *)
(* handle points back to the Executor until that is deleted.               *)
Held(l, e) ==
    /\ Lives(e.child) => e.process = "held" /\ e.alive
    /\ Lives(e.child) => (e.data <=> l = "made")
    /\ l = "made" => (e.alive <=> Lives(e.child))
    /\ l = "made" /\ e.process = "held" => e.data
    /\ l = "deleted" /\ ~Lives(e.child) => e.process # "held"

ExecOK(l, e) ==
    /\ e \in Children!Exec /\ l \in {"new", "made", "deleted"}
    /\ l = "new" => e = Children!NoExec
    /\ ~e.overrun => Held(l, e)

ChildInv ==
    /\ exec \in [Executors -> Children!Exec]
    /\ life \in [Executors -> {"new", "made", "deleted"}]
    /\ \A x \in Executors : ExecOK(life[x], exec[x])

LEMMA ChildInitInv == Children!Init => ChildInv
  BY DEF Children!Init, ChildInv, ExecOK, Held, Children!NoExec, Children!Exec, Lives

(* A step of one Executor keeps the invariant where it keeps that of the   *)
(* one Executor.                                                           *)
LEMMA ChildLocal ==
    ASSUME ChildInv, NEW x \in Executors, NEW e, NEW l, ExecOK(l, e),
           exec' = [exec EXCEPT ![x] = e], life' = [life EXCEPT ![x] = l]
    PROVE  ChildInv'
  BY DEF ChildInv, ExecOK

(* The methods keep the types of an Executor and what they have overrun.   *)
LEMMA ExecTypes ==
    ASSUME NEW e \in Children!Exec
    PROVE  /\ Children!Spawned(e) \in Children!Exec
           /\ Children!SpawnFails(e) \in Children!Exec
           /\ Children!Kill(e) \in Children!Exec
           /\ Children!ChildEnds(e) \in Children!Exec
           /\ Children!ExitReported(e) \in Children!Exec
           /\ Children!Destroyed(e) \in Children!Exec
           /\ Children!Spawned(e).overrun <=> e.alive \/ e.overrun
           /\ Children!SpawnFails(e).overrun <=> e.alive \/ e.overrun
           /\ Children!Kill(e).overrun <=> e.overrun
           /\ Children!ChildEnds(e).overrun <=> e.overrun
           /\ Children!ExitReported(e).overrun <=> e.overrun
           /\ Children!Destroyed(e).overrun <=> e.overrun
<1>1. Children!Kill(e) \in Children!Exec /\ (Children!Kill(e).overrun <=> e.overrun)
  BY DEF Children!Kill, Children!Exec
<1>2. /\ Children!Ready(e) \in Children!Exec
      /\ Children!Ready(e).overrun <=> e.alive \/ e.overrun
  <2> DEFINE k == Children!Kill(e)
  <2>1. Children!Ready(e) =
           IF e.alive THEN [k EXCEPT !.alive = FALSE, !.overrun = TRUE] ELSE e
    BY DEF Children!Ready
  <2>2. k \in Children!Exec
    BY <1>1
  <2> HIDE DEF k
  <2>3. CASE e.alive
    BY <2>1, <2>2, <2>3 DEF Children!Exec
  <2>4. CASE ~e.alive
    <3>1. e.overrun \in BOOLEAN /\ e.alive = FALSE
      BY <2>4 DEF Children!Exec
    <3> QED BY <2>1, <3>1
  <2> QED BY <2>3, <2>4
<1>3. /\ Children!SpawnFails(e) \in Children!Exec
      /\ Children!SpawnFails(e).overrun <=> Children!Ready(e).overrun
  BY <1>2 DEF Children!SpawnFails, Children!Exec
<1>4. /\ Children!Spawned(e) \in Children!Exec
      /\ Children!Spawned(e).overrun <=> Children!SpawnFails(e).overrun
  BY <1>3 DEF Children!Spawned, Children!Exec
<1>5. /\ Children!ChildEnds(e) \in Children!Exec
      /\ Children!ChildEnds(e).overrun <=> e.overrun
  BY DEF Children!ChildEnds, Children!Exec
<1>6. /\ Children!ExitReported(e) \in Children!Exec
      /\ Children!ExitReported(e).overrun <=> e.overrun
  BY DEF Children!ExitReported, Children!Exec
<1>7. /\ Children!Destroyed(e) \in Children!Exec
      /\ Children!Destroyed(e).overrun <=> e.overrun
  BY <1>1 DEF Children!Destroyed, Children!Exec
<1> QED BY <1>1, <1>2, <1>3, <1>4, <1>5, <1>6, <1>7

(* What the methods keep of an Executor that nothing overran.              *)
LEMMA ExecHeld ==
    ASSUME NEW e \in Children!Exec, Held("made", e)
    PROVE  /\ ~e.alive => Held("made", Children!Spawned(e))
           /\ ~e.alive => Held("made", Children!SpawnFails(e))
           /\ Held("made", Children!Kill(e))
           /\ Held("deleted", Children!Destroyed(e))
<1>1. ASSUME ~e.alive
      PROVE  /\ Held("made", Children!Spawned(e))
             /\ Held("made", Children!SpawnFails(e))
  BY <1>1 DEF Children!Spawned, Children!SpawnFails, Children!Ready, Held, Lives,
              Children!Exec
<1>2. Held("made", Children!Kill(e))
  BY DEF Children!Kill, Held, Lives, Children!Exec
<1>3. Held("deleted", Children!Destroyed(e))
  <2> DEFINE d == Children!Destroyed(e)
  <2>1. ASSUME e.alive PROVE Held("deleted", d)
    <3>1. d = [[e EXCEPT !.killed = TRUE] EXCEPT !.data = FALSE]
      BY <2>1 DEF Children!Destroyed, Children!Kill
    <3>2. d.process = e.process /\ d.child = e.child /\ ~d.data /\ d.alive
      BY <2>1, <3>1 DEF Children!Exec
    <3> HIDE DEF d
    <3> QED BY <2>1, <3>2 DEF Held, Lives
  <2>2. ASSUME ~e.alive PROVE Held("deleted", d)
    <3>1. d = [e EXCEPT !.process = IF e.process = "held" THEN "back" ELSE e.process]
      BY <2>2 DEF Children!Destroyed
    <3>2. d.process # "held" /\ d.child = e.child
      BY <3>1 DEF Children!Exec
    <3> HIDE DEF d
    <3> QED BY <2>2, <3>2 DEF Held, Lives
  <2> QED BY <2>1, <2>2
<1> QED BY <1>1, <1>2, <1>3

(* The end of a child, and its report.                                     *)
LEMMA ExecEnds ==
    ASSUME NEW e \in Children!Exec, NEW l \in {"made", "deleted"}, Held(l, e)
    PROVE  /\ e.child = "running" => Held(l, Children!ChildEnds(e))
           /\ e.child = "exited" => Held(l, Children!ExitReported(e))
<1>1. ASSUME e.child = "running" PROVE Held(l, Children!ChildEnds(e))
  BY <1>1 DEF Children!ChildEnds, Held, Lives, Children!Exec
<1>2. ASSUME e.child = "exited" PROVE Held(l, Children!ExitReported(e))
  <2> DEFINE d == Children!ExitReported(e)
  <2>1. ASSUME e.data PROVE Held(l, d)
    <3>1. l = "made"
      BY <1>2, <2>1 DEF Held, Lives
    <3>2. d.child = "reported" /\ d.alive = FALSE /\ d.data = e.data
      BY <2>1 DEF Children!ExitReported, Children!Exec
    <3> HIDE DEF d
    <3> QED BY <2>1, <3>1, <3>2 DEF Held, Lives
  <2>2. ASSUME ~e.data PROVE Held(l, d)
    <3>1. l = "deleted"
      BY <1>2, <2>2 DEF Held, Lives
    <3>2. d.process = "back" /\ d.child = "reported"
      BY <2>2 DEF Children!ExitReported, Children!Exec
    <3> HIDE DEF d
    <3> QED BY <3>1, <3>2 DEF Held, Lives
  <2> QED BY <2>1, <2>2
<1> QED BY <1>1, <1>2

LEMMA ChildStepInv == ChildInv /\ Children!Next => ChildInv'
<1> SUFFICES ASSUME ChildInv, NEW x \in Executors, Children!Step(x) PROVE ChildInv'
  BY DEF Children!Next
<1> DEFINE e == exec[x]
           l == life[x]
<1>0. /\ ExecOK(l, e) /\ e \in Children!Exec
      /\ exec = [exec EXCEPT ![x] = e] /\ life = [life EXCEPT ![x] = l]
  BY DEF ChildInv
<1>1. CASE Children!Construct(x)
  <2>1. ExecOK("made", e) /\ life' = [life EXCEPT ![x] = "made"] /\ exec' = exec
    BY <1>0, <1>1
    DEF Children!Construct, ExecOK, Held, Lives, Children!Exec, Children!NoExec
  <2> QED BY <1>0, <2>1, ChildLocal
<1>2. CASE Children!Spawn(x)
  <2>1. PICK f \in {Children!Spawned(e), Children!SpawnFails(e)} :
           exec' = [exec EXCEPT ![x] = f]
    BY <1>2 DEF Children!Spawn, Children!Become
  <2>2. l = "made" /\ life' = life
    BY <1>2 DEF Children!Spawn
  <2>3. f \in Children!Exec /\ (~f.overrun => ~e.alive /\ ~e.overrun)
    <3>1. CASE f = Children!Spawned(e)
      BY <1>0, <3>1, ExecTypes, Zenon
    <3>2. CASE f = Children!SpawnFails(e)
      BY <1>0, <3>2, ExecTypes, Zenon
    <3> QED BY <2>1, <3>1, <3>2
  <2>4. ExecOK(l, f)
    BY <1>0, <2>1, <2>2, <2>3, ExecHeld DEF ExecOK
  <2> QED BY <1>0, <2>1, <2>2, <2>4, ChildLocal
<1>3. CASE Children!Signal(x)
  <2>1. /\ l = "made" /\ life' = life
        /\ exec' = [exec EXCEPT ![x] = Children!Kill(e)]
    BY <1>3 DEF Children!Signal, Children!Become
  <2>2. ExecOK(l, Children!Kill(e))
    <3>1. /\ Children!Kill(e) \in Children!Exec
          /\ ~Children!Kill(e).overrun => ~e.overrun
      BY <1>0, ExecTypes, Zenon
    <3> QED BY <1>0, <2>1, <3>1, ExecHeld DEF ExecOK
  <2> QED BY <1>0, <2>1, <2>2, ChildLocal
<1>4. CASE Children!Ends(x) \/ Children!OnExit(x)
  <2>1. PICK f \in {Children!ChildEnds(e), Children!ExitReported(e)} :
           /\ exec' = [exec EXCEPT ![x] = f]
           /\ \/ f = Children!ChildEnds(e) /\ e.child = "running"
              \/ f = Children!ExitReported(e) /\ e.child = "exited"
    BY <1>4 DEF Children!Ends, Children!OnExit, Children!Become
  <2>2. life' = life
    BY <1>4 DEF Children!Ends, Children!OnExit
  <2>3. l \in {"made", "deleted"}
    BY <1>0, <2>1 DEF ExecOK, Children!NoExec
  <2>4. ExecOK(l, f)
    <3>1. f \in Children!Exec /\ (~f.overrun => ~e.overrun)
      <4>1. CASE f = Children!ChildEnds(e)
        BY <1>0, <4>1, ExecTypes, Zenon
      <4>2. CASE f = Children!ExitReported(e)
        BY <1>0, <4>2, ExecTypes, Zenon
      <4> QED BY <2>1, <4>1, <4>2
    <3> QED BY <1>0, <2>1, <2>3, <3>1, ExecEnds DEF ExecOK
  <2> QED BY <1>0, <2>1, <2>2, <2>4, ChildLocal
<1>5. CASE Children!Delete(x)
  <2>1. /\ l = "made" /\ life' = [life EXCEPT ![x] = "deleted"]
        /\ exec' = [exec EXCEPT ![x] = Children!Destroyed(e)]
    BY <1>5 DEF Children!Delete, Children!Become
  <2>2. ExecOK("deleted", Children!Destroyed(e))
    <3>1. /\ Children!Destroyed(e) \in Children!Exec
          /\ ~Children!Destroyed(e).overrun => ~e.overrun
      BY <1>0, ExecTypes, Zenon
    <3> QED BY <1>0, <2>1, <3>1, ExecHeld DEF ExecOK
  <2> QED BY <2>1, <2>2, ChildLocal
<1> QED BY <1>1, <1>2, <1>3, <1>4, <1>5
  DEF Children!Step, Children!Other

(* Whatever the user does short of a spawn over a live child, and up to    *)
(* it: libuv keeps the handle of a child for as long as it may report its  *)
(* exit, also when the Executor was deleted first, and it is given back    *)
(* when both are gone (executor.cpp:29-33, 127-132, 138-141).              *)
THEOREM HandleIsKept == PartsSpec => []HandleFollowsChild
<1>1. PartsInit => ChildInv
  BY ChildInitInv DEF PartsInit, ChildRests
<1>2. ChildInv /\ [PartsNext]_<<part, vars, pool, child, startup, capsule, mime>> => ChildInv'
  BY ChildStepInv DEF PartsNext, child, ChildInv
<1>3. ChildInv => HandleFollowsChild
  BY DEF ChildInv, ExecOK, Held, Lives, HandleFollowsChild,
         Children!HandleFollowsChild, Children!Exec
<1> QED BY <1>1, <1>2, <1>3, PTL DEF PartsSpec

----------------------------------------------------------------------------
(***************************************************************************)
(* The start of the process, for any files and names.                      *)
(***************************************************************************)

Handles == {"none", "bound", "listening", "refused", "closed"}

StartupTypeOK ==
    /\ phase \in {"servers", "handlers", "start", "run", "terminated", "crashed"}
    /\ server \in [ServerFiles -> [wolfssl : BOOLEAN, handle : Handles]]
    /\ servers \in [Names -> ServerFiles \cup {Starts!NoServer}]

(* A file that is still to be read has no server of its own yet.           *)
Unread ==
    phase = "servers" =>
        /\ todo \subseteq ServerFiles
        /\ \A f \in todo : server[f] = Starts!New /\ \A n \in Names : servers[n] # f

(* An open port has its TLS context and a place in the map.                *)
OpenKept(f) ==
    /\ Starts!Open(f) <=> server[f].wolfssl
    /\ Starts!Open(f) => \E n \in Names : servers[n] = f

Tried(n) == server[servers[n]].handle \in {"listening", "refused"}

(* Each server of the map that is no longer to be started was tried.       *)
InTurn ==
    /\ phase = "start" => todo \subseteq Starts!Started
                          /\ \A n \in Starts!Started \ todo : Tried(n)
    /\ phase = "run" => \A n \in Starts!Started : Tried(n)

StartupInv ==
    /\ StartupTypeOK /\ Unread /\ InTurn
    /\ \A f \in ServerFiles : OpenKept(f)

LEMMA StartupInitInv == Starts!Init => StartupInv
<1> SUFFICES ASSUME Starts!Init PROVE StartupInv
  OBVIOUS
<1> USE StartupAssumption DEF Starts!Init, Starts!New
<1>1. StartupTypeOK
  BY DEF StartupTypeOK, Handles
<1>2. Unread /\ InTurn
  BY DEF Unread, InTurn
<1>3. \A f \in ServerFiles : OpenKept(f)
  BY DEF OpenKept, Starts!Open
<1> QED BY <1>1, <1>2, <1>3 DEF StartupInv

(* A server is loaded, in a place of its own or, its name being taken, not *)
(* at all.                                                                 *)
LEMMA LoadServerInv ==
    ASSUME StartupInv, NEW f \in todo, Starts!LoadServer(f) PROVE StartupInv'
<1>1. /\ phase = "servers" /\ phase' = "servers"
      /\ todo' = todo \ {f}
      /\ f \in ServerFiles
      /\ server[f] = Starts!New /\ \A n \in Names : servers[n] # f
  BY DEF StartupInv, Unread, Starts!LoadServer, Starts!Read
<1>2. PICK s \in Starts!Loaded :
        \/ \E n \in Names :
              /\ servers[n] = Starts!NoServer
              /\ servers' = [servers EXCEPT ![n] = f]
              /\ server' = [server EXCEPT ![f] = s]
        \/ /\ server' = [server EXCEPT ![f] = Starts!Destroyed(s)]
           /\ UNCHANGED servers
  BY DEF Starts!LoadServer
<1>3. /\ s \in [wolfssl : BOOLEAN, handle : Handles]
      /\ s.handle \in {"bound", "listening"} <=> s.wolfssl
  <2>1. CASE s = Starts!New
    BY <2>1 DEF Starts!New, Handles
  <2>2. CASE s = [wolfssl |-> TRUE, handle |-> "bound"]
    BY <2>2 DEF Handles
  <2> QED BY <2>1, <2>2 DEF Starts!Loaded
<1>4. CASE \E n \in Names : /\ servers[n] = Starts!NoServer
                            /\ servers' = [servers EXCEPT ![n] = f]
                            /\ server' = [server EXCEPT ![f] = s]
  <2>1. PICK n \in Names : /\ servers[n] = Starts!NoServer
                           /\ servers' = [servers EXCEPT ![n] = f]
                           /\ server' = [server EXCEPT ![f] = s]
    BY <1>4
  <2>2. StartupTypeOK'
    BY <1>1, <1>3, <2>1 DEF StartupInv, StartupTypeOK
  <2>3. Unread' /\ InTurn'
    BY <1>1, <2>1 DEF StartupInv, StartupTypeOK, Unread, InTurn
  <2>4. ASSUME NEW g \in ServerFiles PROVE OpenKept(g)'
    <3>1. CASE g = f
      <4>1. server'[g] = s /\ servers'[n] = g
        BY <1>1, <2>1, <3>1 DEF StartupInv, StartupTypeOK
      <4> QED BY <1>3, <4>1 DEF OpenKept, Starts!Open
    <3>2. CASE g # f
      <4>1. server'[g] = server[g]
        BY <2>1, <3>2 DEF StartupInv, StartupTypeOK
      <4>2. ASSUME NEW m \in Names, servers[m] = g PROVE servers'[m] = g
        <5>1. m # n
          BY <2>1, <4>2, StartupAssumption
        <5> QED BY <2>1, <4>2, <5>1 DEF StartupInv, StartupTypeOK
      <4> QED BY <4>1, <4>2 DEF StartupInv, OpenKept, Starts!Open
    <3> QED BY <3>1, <3>2
  <2> QED BY <2>2, <2>3, <2>4 DEF StartupInv
<1>5. CASE server' = [server EXCEPT ![f] = Starts!Destroyed(s)] /\ UNCHANGED servers
  <2>1. /\ Starts!Destroyed(s) \in [wolfssl : BOOLEAN, handle : Handles]
        /\ Starts!Destroyed(s).wolfssl = FALSE
        /\ Starts!Destroyed(s).handle \notin {"bound", "listening"}
    BY DEF Starts!Destroyed, Starts!Loaded, Starts!New, Handles
  <2> HIDE DEF Starts!Destroyed
  <2>2. StartupTypeOK'
    BY <1>1, <1>5, <2>1 DEF StartupInv, StartupTypeOK
  <2>3. Unread' /\ InTurn'
    BY <1>1, <1>5 DEF StartupInv, StartupTypeOK, Unread, InTurn
  <2>4. ASSUME NEW g \in ServerFiles PROVE OpenKept(g)'
    <3>1. CASE g = f
      BY <1>1, <1>5, <2>1, <3>1 DEF StartupInv, StartupTypeOK, OpenKept, Starts!Open
    <3>2. CASE g # f
      BY <1>5, <3>2 DEF StartupInv, StartupTypeOK, OpenKept, Starts!Open
    <3> QED BY <3>1, <3>2
  <2> QED BY <2>2, <2>3, <2>4 DEF StartupInv
<1> QED BY <1>2, <1>4, <1>5

LEMMA ListenInv ==
    ASSUME StartupInv, NEW n \in todo, n \in Names, Starts!Listen(n) PROVE StartupInv'
<1> DEFINE f == servers[n]
<1>1. /\ phase = "start" /\ phase' = "start"
      /\ server[f].handle = "bound"
      /\ todo' = todo \ {n} /\ servers' = servers
      /\ n \in Starts!Started /\ f \in ServerFiles
  BY DEF Starts!Listen, Starts!Read, StartupInv, InTurn, StartupTypeOK, Starts!Started
<1>2. server[f].wolfssl = TRUE
  BY <1>1 DEF StartupInv, StartupTypeOK, OpenKept, Starts!Open
<1>3. PICK s \in {[server[f] EXCEPT !.handle = "listening"],
                  Starts!ListenFailed(server[f])} :
          server' = [server EXCEPT ![f] = s]
  BY DEF Starts!Listen
<1>4. /\ s \in [wolfssl : BOOLEAN, handle : Handles]
      /\ s.handle \in {"listening", "refused"}
      /\ s.handle \in {"bound", "listening"} <=> s.wolfssl
  <2>1. server[f] \in [wolfssl : BOOLEAN, handle : Handles]
    BY <1>1 DEF StartupInv, StartupTypeOK
  <2>2. CASE s = Starts!ListenFailed(server[f])
    BY <2>2 DEF Starts!ListenFailed, Handles
  <2>3. CASE s = [server[f] EXCEPT !.handle = "listening"]
    <3>1. s.handle = "listening" /\ s.wolfssl = TRUE
      BY <1>2, <2>1, <2>3
    <3>2. s \in [wolfssl : BOOLEAN, handle : Handles]
      BY <2>1, <2>3 DEF Handles
    <3> QED BY <3>1, <3>2
  <2> QED BY <1>3, <2>2, <2>3
<1>5. StartupTypeOK'
  BY <1>1, <1>3, <1>4 DEF StartupInv, StartupTypeOK
<1>6. Unread'
  BY <1>1 DEF Unread
<1>7. InTurn'
  <2>1. Starts!Started' = Starts!Started
    BY <1>1 DEF Starts!Started
  <2>2. ASSUME NEW m \in Starts!Started, m = n \/ m \notin todo PROVE Tried(m)'
    <3>1. servers[m] \in ServerFiles
      BY DEF Starts!Started, StartupInv, StartupTypeOK
    <3>2. CASE servers[m] = f
      BY <1>1, <1>3, <1>4, <3>1, <3>2 DEF StartupInv, StartupTypeOK, Tried
    <3>3. CASE servers[m] # f
      <4>1. m \notin todo /\ Tried(m)
        BY <1>1, <2>2, <3>3 DEF StartupInv, InTurn
      <4> QED BY <1>1, <1>3, <3>1, <3>3, <4>1 DEF StartupInv, StartupTypeOK, Tried
    <3> QED BY <3>2, <3>3
  <2> QED BY <1>1, <2>1, <2>2 DEF StartupInv, InTurn
<1>8. ASSUME NEW g \in ServerFiles PROVE OpenKept(g)'
  <2>1. CASE g = f
    <3>1. server'[g] = s /\ servers'[n] = g
      BY <1>1, <1>3, <2>1 DEF StartupInv, StartupTypeOK
    <3>2. n \in Names
      OBVIOUS
    <3> QED BY <1>4, <3>1, <3>2 DEF OpenKept, Starts!Open
  <2>2. CASE g # f
    BY <1>1, <1>3, <2>2 DEF StartupInv, StartupTypeOK, OpenKept, Starts!Open
  <2> QED BY <2>1, <2>2
<1> QED BY <1>5, <1>6, <1>7, <1>8 DEF StartupInv

LEMMA StartupStepInv == StartupInv /\ Starts!Next => StartupInv'
<1> SUFFICES ASSUME StartupInv, Starts!Next PROVE StartupInv'
  OBVIOUS
<1>1. CASE Starts!NextPhase
  <2>1. UNCHANGED <<server, servers>> /\ \A f \in ServerFiles : OpenKept(f)'
    BY <1>1 DEF Starts!NextPhase, StartupInv, OpenKept, Starts!Open
  <2>2. StartupTypeOK' /\ Unread'
    BY <1>1, <2>1 DEF Starts!NextPhase, StartupInv, StartupTypeOK, Unread
  <2>3. InTurn'
    BY <1>1, <2>1 DEF Starts!NextPhase, StartupInv, InTurn, Starts!Started, Tried
  <2> QED BY <2>1, <2>2, <2>3 DEF StartupInv
<1>2. ASSUME NEW f \in todo, Starts!PassOver(f) \/ Starts!LoadHandler(f) PROVE StartupInv'
  <2>1. /\ UNCHANGED <<phase, server, servers>> /\ todo' \subseteq todo
        /\ phase \in {"servers", "handlers"}
    BY <1>2 DEF Starts!PassOver, Starts!LoadHandler, Starts!Read
  <2>2. StartupTypeOK' /\ Unread' /\ InTurn'
    BY <2>1 DEF StartupInv, StartupTypeOK, Unread, InTurn
  <2> QED BY <2>1, <2>2 DEF StartupInv, OpenKept, Starts!Open
<1>3. ASSUME phase' \in {"terminated", "crashed"}, UNCHANGED <<server, servers>>
      PROVE  StartupInv'
  BY <1>3 DEF StartupInv, StartupTypeOK, Unread, InTurn, OpenKept, Starts!Open
<1>4. ASSUME NEW f \in todo, Starts!Terminate(f) PROVE StartupInv'
  BY <1>3, <1>4 DEF Starts!Terminate
<1>5. ASSUME NEW n \in todo, Starts!Listen(n) PROVE StartupInv'
  <2>1. n \in Names
    BY <1>5 DEF Starts!Listen, StartupInv, InTurn, Starts!Started
  <2> QED BY <1>5, <2>1, ListenInv
<1>6. ASSUME NEW n \in todo, Starts!ListenOnNull(n) PROVE StartupInv'
  BY <1>3, <1>6 DEF Starts!ListenOnNull
<1> QED BY <1>1, <1>2, <1>4, <1>5, <1>6, LoadServerInv DEF Starts!Next

(* However files are read, named and refused, a taken port belongs to a    *)
(* server of the map that has its TLS context, and the loop begins only    *)
(* when each of these was asked to listen (server.cpp:344-413,             *)
(* manager.cpp:110-116, 173-178).                                          *)
THEOREM PortsAreServed == PartsSpec => []PortsServed
<1>1. PartsInit => StartupInv
  BY StartupInitInv DEF PartsInit, StartupRests
<1>2. StartupInv /\ [PartsNext]_<<part, vars, pool, child, startup, capsule, mime>>
        => StartupInv'
  BY StartupStepInv DEF PartsNext, startup, StartupInv, StartupTypeOK, Unread, InTurn,
     OpenKept, Tried, Starts!Open, Starts!Started
<1>3. StartupInv => PortsServed
  BY DEF StartupInv, InTurn, Tried, OpenKept, PortsServed, Starts!PortsServed
<1> QED BY <1>1, <1>2, <1>3, PTL DEF PartsSpec

----------------------------------------------------------------------------
(***************************************************************************)
(* The search for a MIME type.                                             *)
(***************************************************************************)

Listed == 1..Entries

InPair(i) == i \in Swapped \/ i - 1 \in Swapped

LEMMA Table ==
    /\ Types!types \in [Listed -> Nat]
    /\ \A i \in Listed : ~InPair(i) => Types!types[i] = 2 * i
    /\ \A i \in Swapped : /\ i \in Listed /\ i + 1 \in Listed
                         /\ Types!types[i] = 2 * i + 2
                         /\ Types!types[i + 1] = 2 * i
  BY TableAssumption DEF Types!types, Listed, InPair

(* No two entries are the same.                                            *)
LEMMA TableInjective ==
    \A i, j \in Listed : Types!types[i] = Types!types[j] => i = j
<1> SUFFICES ASSUME NEW i \in Listed, NEW j \in Listed, Types!types[i] = Types!types[j]
             PROVE  i = j
  OBVIOUS
<1>1. i \in Int /\ j \in Int /\ Entries \in Nat
  BY TableAssumption DEF Listed
<1> QED BY <1>1, TableAssumption DEF Types!types, Listed

(* Apart from a pair the table orders as the ranks do.                     *)
LEMMA TableOrders ==
    ASSUME NEW i \in Listed, ~InPair(i), NEW k \in Listed
    PROVE  /\ Types!types[k] < 2 * i <=> k < i
           /\ Types!types[k] > 2 * i <=> k > i
<1>1. i \in Int /\ k \in Int /\ Entries \in Nat
  BY TableAssumption DEF Listed
<1> QED BY <1>1, TableAssumption DEF Types!types, Listed, InPair

(* What is looked for, unless it is in a pair, lies between min and max    *)
(* until it is found.                                                      *)
Narrows ==
    \A i \in Listed :
        extension = 2 * i /\ ~InPair(i) =>
            /\ found = Types!Searching => min <= i - 1 /\ i - 1 <= max
            /\ found # Types!Null

SearchInv ==
    /\ extension \in 1..(2 * Entries + 1)
    /\ min \in Nat /\ max \in Int /\ max < Entries
    /\ found \in Listed \cup {Types!Searching, Types!Null}
    /\ found \in Listed => Types!types[found] = extension
    /\ Narrows

LEMMA MiddleIsThere ==
    ASSUME SearchInv, min <= max
    PROVE  Types!Middle \in Int /\ min <= Types!Middle /\ Types!Middle <= max
  BY DEF SearchInv, Types!Middle

LEMMA SearchInitInv == Types!Init => SearchInv
<1> SUFFICES ASSUME Types!Init PROVE SearchInv
  OBVIOUS
<1> QED BY TableAssumption DEF Types!Init, SearchInv, Narrows, Types!Searching, Types!Null, Listed

LEMMA RoundInv == ASSUME SearchInv, Types!Round PROVE SearchInv'
<1> DEFINE m == Types!Middle
<1> DEFINE place == m + 1
<1>0. Entries \in Nat /\ extension' = extension /\ found = Types!Searching /\ min <= max
  BY TableAssumption DEF Types!Round
<1>1. m \in Int /\ min <= m /\ m <= max /\ place \in Listed
  BY <1>0, MiddleIsThere DEF SearchInv, Listed
<1>2. Types!types[place] \in Nat /\ extension \in Nat
  BY <1>1, Table DEF SearchInv
<1>3. CASE Types!Order = 0 /\ Types!Equal
  <2>1. /\ found' = place /\ UNCHANGED <<min, max>> /\ Types!types[place] = extension
    BY <1>2, <1>3 DEF Types!Order, Types!Equal
  <2>2. place # Types!Searching /\ place # Types!Null
    BY <1>0, <1>1 DEF Types!Searching, Types!Null, Listed
  <2> HIDE DEF m
  <2> QED BY <1>0, <1>1, <2>1, <2>2 DEF SearchInv, Narrows
<1>4. CASE Types!Order > 0 /\ Types!Up
  <2>1. min' = place /\ UNCHANGED <<max, found>> /\ Types!types[place] < extension
    BY <1>2, <1>4 DEF Types!Order, Types!Up
  <2>2. ASSUME NEW i \in Listed, extension = 2 * i, ~InPair(i) PROVE place < i
    BY <1>1, <2>1, <2>2, TableOrders
  <2> HIDE DEF m
  <2>3. Narrows'
    BY <1>0, <1>1, <2>1, <2>2 DEF SearchInv, Narrows, Listed
  <2> QED BY <1>0, <1>1, <2>1, <2>3 DEF SearchInv
<1>5. CASE Types!Order < 0 /\ Types!Down
  <2>1. max' = m - 1 /\ UNCHANGED <<min, found>> /\ Types!types[place] > extension
    BY <1>2, <1>5 DEF Types!Order, Types!Down
  <2>2. ASSUME NEW i \in Listed, extension = 2 * i, ~InPair(i) PROVE place > i
    BY <1>1, <2>1, <2>2, TableOrders
  <2> HIDE DEF m
  <2>3. Narrows'
    BY <1>0, <1>1, <2>1, <2>2 DEF SearchInv, Narrows, Listed
  <2> QED BY <1>0, <1>1, <2>1, <2>3 DEF SearchInv
<1> QED BY <1>3, <1>4, <1>5 DEF Types!Round

LEMMA SearchStepInv == SearchInv /\ Types!Next => SearchInv'
<1> SUFFICES ASSUME SearchInv, Types!Exhausted PROVE SearchInv'
  BY RoundInv DEF Types!Next
<1> QED BY TableAssumption DEF Types!Exhausted, SearchInv, Narrows, Types!Null, Types!Searching, Listed

MimeInv == IF part = "mime" THEN SearchInv ELSE MimeRests

LEMMA SearchInductive == PartsSpec => []MimeInv
<1>1. PartsInit => MimeInv
  BY SearchInitInv DEF PartsInit, MimeInv
<1>2. MimeInv /\ [PartsNext]_<<part, vars, pool, child, startup, capsule, mime>> => MimeInv'
  BY SearchStepInv DEF PartsNext, mime, SearchInv, Narrows, MimeRests, MimeInv
<1> QED BY <1>1, <1>2, PTL DEF PartsSpec

(* Whatever the table, the search ends at an entry with the extension, or  *)
(* without one, and then no entry outside the misplaced pairs has it       *)
(* (MimeTypes.cpp:13-29).                                                  *)
FoundIsRight ==
    found # Types!Searching =>
        IF found = Types!Null
          THEN \A i \in Listed : Types!types[i] = extension => InPair(i)
          ELSE found \in Listed /\ Types!types[found] = extension

THEOREM SearchIsRight == PartsSpec => []FoundIsRight
<1>1. SearchInv => FoundIsRight
  BY Table DEF SearchInv, Narrows, FoundIsRight
<1>2. MimeInv => FoundIsRight
  BY <1>1 DEF MimeInv, MimeRests, FoundIsRight
<1> QED BY <1>2, SearchInductive, PTL

----------------------------------------------------------------------------
(***************************************************************************)
(* Which entry of a pair is missed depends on which is compared first; in  *)
(* the code's table that is the later one of both pairs.                   *)
(***************************************************************************)

TheTable == Entries = 349 /\ Swapped = {75, 80}

(* The rounds of the search for an extension of a pair.                    *)
RoundsToPairs ==
    {<<0, 348>>, <<0, 173>>, <<0, 85>>, <<43, 85>>, <<65, 85>>}
RoundsToLater == {<<76, 85>>}
RoundsTo152 == {<<76, 79>>, <<76, 76>>, <<76, 75>>}
RoundsTo162 == {<<81, 85>>, <<81, 82>>, <<81, 80>>}

PairSearch ==
    /\ extension = 150 => /\ <<min, max>> \in RoundsToPairs
                          /\ found \in {Types!Searching, 76}
    /\ extension = 152 => /\ <<min, max>> \in RoundsToPairs \cup RoundsToLater \cup RoundsTo152
                          /\ found \in {Types!Searching, Types!Null}
    /\ extension = 160 => /\ <<min, max>> \in RoundsToPairs \cup RoundsToLater
                          /\ found \in {Types!Searching, 81}
    /\ extension = 162 => /\ <<min, max>> \in RoundsToPairs \cup RoundsToLater \cup RoundsTo162
                          /\ found \in {Types!Searching, Types!Null}

LEMMA TheTypes ==
    ASSUME TheTable
    PROVE  \A k \in 1..349 :
              Types!types[k] = IF k \in {75, 80} THEN 2 * k + 2
                               ELSE IF k \in {76, 81} THEN 2 * k - 2 ELSE 2 * k
  BY DEF TheTable, Types!types

(* One round, with the comparison spelled out.                             *)
LEMMA RoundOfTheTable ==
    ASSUME TheTable, Types!Round, NEW m \in 0..348, m = (max + min) \div 2
    PROVE  /\ extension' = extension /\ found = Types!Searching
           /\ LET t == IF m \in {74, 79} THEN 2 * m + 4
                       ELSE IF m \in {75, 80} THEN 2 * m ELSE 2 * m + 2
              IN  \/ extension - t = 0 /\ found' = m + 1 /\ min' = min /\ max' = max
                  \/ extension - t > 0 /\ found' = found /\ min' = m + 1 /\ max' = max
                  \/ extension - t < 0 /\ found' = found /\ min' = min /\ max' = m - 1
<1>1. /\ m + 1 \in 1..349 /\ Types!Middle = m
      /\ Types!types[m + 1] = IF m \in {74, 79} THEN 2 * m + 4
                              ELSE IF m \in {75, 80} THEN 2 * m ELSE 2 * m + 2
  BY TheTypes DEF Types!Middle
<1> QED BY <1>1 DEF Types!Round, Types!Order, Types!Equal, Types!Up, Types!Down

LEMMA PairSearchRound ==
    ASSUME TheTable, PairSearch, Types!Round, extension \in {150, 152, 160, 162}
    PROVE  PairSearch'
<1> USE DEF RoundsToPairs, RoundsToLater, RoundsTo152, RoundsTo162, Types!Searching, Types!Null
<1>1. min <= max /\ found = Types!Searching /\ extension' = extension
  BY DEF Types!Round
<1>2. CASE <<min, max>> = <<0, 348>>
  BY <1>2, RoundOfTheTable, 174 = (348 + 0) \div 2 DEF PairSearch
<1>3. CASE <<min, max>> = <<0, 173>>
  BY <1>3, RoundOfTheTable, 86 = (173 + 0) \div 2 DEF PairSearch
<1>4. CASE <<min, max>> = <<0, 85>>
  BY <1>4, RoundOfTheTable, 42 = (85 + 0) \div 2 DEF PairSearch
<1>5. CASE <<min, max>> = <<43, 85>>
  BY <1>5, RoundOfTheTable, 64 = (85 + 43) \div 2 DEF PairSearch
<1>6. CASE <<min, max>> = <<65, 85>>
  BY <1>6, RoundOfTheTable, 75 = (85 + 65) \div 2 DEF PairSearch
<1>7. CASE <<min, max>> = <<76, 85>>
  BY <1>7, RoundOfTheTable, 80 = (85 + 76) \div 2 DEF PairSearch
<1>8. CASE <<min, max>> \in RoundsTo152 /\ extension = 152
  <2>1. CASE <<min, max>> = <<76, 79>>
    BY <1>8, <2>1, RoundOfTheTable, 77 = (79 + 76) \div 2 DEF PairSearch
  <2>2. CASE <<min, max>> = <<76, 76>>
    BY <1>8, <2>2, RoundOfTheTable, 76 = (76 + 76) \div 2 DEF PairSearch
  <2> QED BY <1>1, <1>8, <2>1, <2>2
<1>9. CASE <<min, max>> \in RoundsTo162 /\ extension = 162
  <2>1. CASE <<min, max>> = <<81, 85>>
    BY <1>9, <2>1, RoundOfTheTable, 83 = (85 + 81) \div 2 DEF PairSearch
  <2>2. CASE <<min, max>> = <<81, 82>>
    BY <1>9, <2>2, RoundOfTheTable, 81 = (82 + 81) \div 2 DEF PairSearch
  <2> QED BY <1>1, <1>9, <2>1, <2>2
<1> QED BY <1>2, <1>3, <1>4, <1>5, <1>6, <1>7, <1>8, <1>9 DEF PairSearch

LEMMA PairSearchInductive == ASSUME TheTable PROVE PartsSpec => []PairSearch
<1>1. PartsInit => PairSearch
  <2>1. MimeRests => PairSearch
    BY DEF MimeRests, PairSearch
  <2>2. Types!Init => PairSearch
    BY DEF TheTable, Types!Init, PairSearch, RoundsToPairs
  <2> QED BY <2>1, <2>2 DEF PartsInit
<1>2. PairSearch /\ [PartsNext]_<<part, vars, pool, child, startup, capsule, mime>>
        => PairSearch'
  <2> SUFFICES ASSUME PairSearch, Types!Next PROVE PairSearch'
    BY DEF PartsNext, mime, PairSearch
  <2>1. CASE Types!Round
    <3>1. CASE extension \in {150, 152, 160, 162}
      BY <2>1, <3>1, PairSearchRound
    <3>2. CASE extension \notin {150, 152, 160, 162}
      BY <2>1, <3>2 DEF Types!Round, PairSearch
    <3> QED BY <3>1, <3>2
  <2>2. CASE Types!Exhausted
    BY <2>2 DEF Types!Exhausted, PairSearch, RoundsToPairs, RoundsToLater, Types!Null,
       Types!Searching
  <2> QED BY <2>1, <2>2 DEF Types!Next
<1> QED BY <1>1, <1>2, PTL DEF PartsSpec

(* The entry of a pair that comes too early is missed, the other is found. *)
PairsRight ==
    \A i \in Swapped :
        /\ extension = 2 * i + 2 => found \notin Listed
        /\ extension = 2 * i => found # Types!Null

LEMMA RightInAll == SearchInv /\ PairsRight => FindsWhatIsListed
<1> SUFFICES ASSUME SearchInv, PairsRight, found # Types!Searching
             PROVE  found = IF extension % 2 = 0 /\ extension \notin Types!Missed
                              THEN CHOOSE i \in Listed : Types!types[i] = extension
                              ELSE Types!Null
  BY DEF FindsWhatIsListed, Types!FindsWhatIsListed, Listed
<1>0. Entries \in Nat /\ extension \in 1..(2 * Entries + 1)
  BY TableAssumption DEF SearchInv
<1>1. CASE found = Types!Null
  <2> SUFFICES ASSUME extension % 2 = 0, extension \notin Types!Missed PROVE FALSE
    BY <1>1
  <2>1. PICK i \in Listed : extension = 2 * i
    BY <1>0 DEF Listed
  <2>2. i \notin Swapped
    BY <1>1, <2>1 DEF PairsRight
  <2>3. i - 1 \notin Swapped
    <3> SUFFICES ASSUME i - 1 \in Swapped PROVE extension \in Types!Missed
      OBVIOUS
    <3>1. Types!types[i - 1] = 2 * (i - 1) + 2
      BY Table
    <3> QED BY <2>1, <3>1, TableAssumption DEF Types!Missed, Listed
  <2> QED BY <1>1, <2>1, <2>2, <2>3 DEF SearchInv, Narrows, InPair
<1>2. CASE found \in Listed
  <2>1. Types!types[found] = extension
    BY <1>2 DEF SearchInv
  <2>2. found = CHOOSE i \in Listed : Types!types[i] = extension
    BY <1>2, <2>1, TableInjective
  <2>3. extension \notin Types!Missed
    <3> SUFFICES ASSUME NEW i \in Swapped, extension = Types!types[i] PROVE FALSE
      BY DEF Types!Missed
    <3> QED BY <1>2, Table DEF PairsRight
  <2>4. extension % 2 = 0
    <3>1. \/ extension = 2 * found \/ extension = 2 * (found + 1) \/ extension = 2 * (found - 1)
      BY <1>0, <1>2, <2>1 DEF Types!types, Listed
    <3> QED BY <1>0, <1>2, <3>1 DEF Listed
  <2> QED BY <2>2, <2>3, <2>4
<1> QED BY <1>1, <1>2 DEF SearchInv

(* In the code's table every listed extension is found, but for the two    *)
(* that come too early, geojson and gml, of which nothing is found         *)
(* (MimeTypes.cpp:13-29, 145, 150).                                        *)
THEOREM FindsInTheTable == ASSUME TheTable PROVE PartsSpec => []FindsWhatIsListed
<1>1. SearchInv /\ PairSearch => PairsRight
  BY DEF TheTable, PairSearch, PairsRight, Listed, Types!Searching, Types!Null
<1>2. MimeRests => FindsWhatIsListed
  BY DEF MimeRests, FindsWhatIsListed, Types!FindsWhatIsListed
<1>3. MimeInv /\ PairSearch => FindsWhatIsListed
  BY <1>1, <1>2, RightInAll DEF MimeInv
<1> QED BY <1>3, SearchInductive, PairSearchInductive, PTL

(* In a table in order, of any length, every listed extension is found     *)
(* (MimeTypes.cpp:13-29).                                                  *)
THEOREM FindsInOrder == ASSUME Swapped = {} PROVE PartsSpec => []FindsWhatIsListed
<1>1. PairsRight
  BY DEF PairsRight
<1>2. MimeRests => FindsWhatIsListed
  BY DEF MimeRests, FindsWhatIsListed, Types!FindsWhatIsListed
<1>3. MimeInv => FindsWhatIsListed
  BY <1>1, <1>2, RightInAll DEF MimeInv
<1> QED BY <1>3, SearchInductive, PTL

=============================================================================
