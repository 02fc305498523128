----------------------------- MODULE Allocator -----------------------------
(***************************************************************************)
(* ReusableAllocator of src/shared/gemcaps/util.hpp: alloc_size items that *)
(* are members of the allocator, then chunks of as many from the heap.     *)
(* Which available item is handed out is left open; the code takes the     *)
(* last of its vector.                                                     *)
(*                                                                         *)
(* An item is the pair of its chunk and its place there.  Chunks are the   *)
(* addresses the heap may return; one that was freed may come back.        *)
(***************************************************************************)
EXTENDS Naturals, FiniteSets

CONSTANTS
    Chunks,
    Stack,              \* the chunk that is part of the allocator
    alloc_size

ASSUME AllocatorAssumption ==
    /\ Stack \notin Chunks
    /\ alloc_size \in Nat \ {0}

VARIABLES
    heap,               \* keys of heap_avail
    avail,              \* stack_avail and the values of heap_avail
    in_use,             \* stack_in_use and keys of heap_in_use
    owners              \* [Items -> Nat]: users who got the item (history)

allocatorVars == <<heap, avail, in_use, owners>>

ItemsOf(ch) == {ch} \X (1..alloc_size)

Items == UNION {ItemsOf(ch) : ch \in Chunks \cup {Stack}}

AllocatorInit ==
    /\ heap = {}
    /\ avail = ItemsOf(Stack)
    /\ in_use = {}
    /\ owners = [x \in Items |-> 0]

HandOut(x) ==
    /\ in_use' = in_use \cup {x}
    /\ owners' = [owners EXCEPT ![x] = @ + 1]

AllocateAny ==                  \* slip: any item that is available
    \E x \in avail : avail' = avail \ {x} /\ HandOut(x) /\ UNCHANGED heap

Allocate ==
    \E x \in avail :
        /\ avail \cap ItemsOf(Stack) # {} => x \in ItemsOf(Stack)
        /\ avail' = avail \ {x}
        /\ HandOut(x)
        /\ UNCHANGED heap

(* Nothing is available: the first item of a new chunk.                    *)
AllocateChunk ==
    /\ avail = {}
    /\ \E ch \in Chunks \ heap : \E x \in ItemsOf(ch) :
          /\ heap' = heap \cup {ch}
          /\ avail' = ItemsOf(ch) \ {x}
          /\ HandOut(x)

(* slips: a chunk is freed with its first item; a chunk is never freed     *)
AnyItem(x) == TRUE
NoItem(x) == FALSE

(* All other items of its chunk are available.                             *)
LastItem(x) == ItemsOf(x[1]) \subseteq avail \cup {x}

DeallocateStack(x) ==
    /\ x \in in_use \cap ItemsOf(Stack)
    /\ avail' = avail \cup {x}
    /\ in_use' = in_use \ {x}
    /\ UNCHANGED heap

DeallocateHeap(x) ==
    /\ x \in in_use \ ItemsOf(Stack)
    /\ in_use' = in_use \ {x}
    /\ IF LastItem(x)
         THEN /\ heap' = heap \ {x[1]}
              /\ avail' = avail \ ItemsOf(x[1])
         ELSE /\ avail' = avail \cup {x}
              /\ UNCHANGED heap

(* An item that is not in use is ignored.  A user gives back what he got.  *)
Deallocate(x) ==
    /\ owners[x] > 0
    /\ DeallocateStack(x) \/ DeallocateHeap(x)
    /\ owners' = [owners EXCEPT ![x] = @ - 1]

AllocatorNext == Allocate \/ AllocateChunk \/ \E x \in Items : Deallocate(x)

AllocatorSpec == AllocatorInit /\ [][AllocatorNext]_allocatorVars

----------------------------------------------------------------------------
AllocatorTypeOK ==
    /\ heap \subseteq Chunks
    /\ avail \subseteq Items
    /\ in_use \subseteq Items
    /\ owners \in [Items -> Nat]

(* The memory of an item in use is not freed, and neither is it on offer:  *)
(* whatever the order of calls, each item of a live chunk is either used   *)
(* or available (util.hpp:209-216).                                        *)
Accounted ==
    /\ avail \cap in_use = {}
    /\ avail \cup in_use = UNION {ItemsOf(ch) : ch \in heap \cup {Stack}}

(* A chunk is kept only while one of its items is used, so the memory of a *)
(* burst of requests is returned (util.hpp:213-216).                       *)
NoIdleChunk == \A ch \in heap : in_use \cap ItemsOf(ch) # {}

(* A heap item, which was never constructed (util.hpp:192), is handed out  *)
(* only while all alloc_size constructed ones are in use.                  *)
RawOnlyWhenFull ==
    [][\A x \in in_use' \ in_use :
          x \in ItemsOf(Stack) \/ ItemsOf(Stack) \subseteq in_use]_allocatorVars

(* Two users never have the same item, whatever was given back and freed   *)
(* in between (util.hpp:172-197).                                          *)
Users == INSTANCE Pool

PoolSpec == Users!Spec

=============================================================================
