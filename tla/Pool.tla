-------------------------------- MODULE Pool --------------------------------
(***************************************************************************)
(* What the users of ReusableAllocator (src/shared/gemcaps/util.hpp) rely  *)
(* on: an item belongs to one of them until it is given back.              *)
(***************************************************************************)
EXTENDS Naturals

CONSTANT Items

VARIABLE owners     \* [Items -> Nat]: how many users have the item

Init == owners = [x \in Items |-> 0]

(* Nobody else has the item.                                               *)
Take(x) == owners[x] = 0 /\ owners' = [owners EXCEPT ![x] = 1]

Give(x) == owners[x] = 1 /\ owners' = [owners EXCEPT ![x] = 0]

Next == \E x \in Items : Take(x) \/ Give(x)

Spec == Init /\ [][Next]_owners

=============================================================================
