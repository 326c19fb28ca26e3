------------------------------- MODULE KeySet --------------------------------
(***************************************************************************)
(* What the B-tree of extents (btreenodes.c) is to its callers: a set of   *)
(* keys.  A key is created when it is not there and deleted when it is; an *)
(* operation that fails is undone with its transaction.                    *)
(***************************************************************************)
CONSTANT Keys

VARIABLE keys

Init == keys = {}

CreateBNode(key) == key \in Keys \ keys /\ keys' = keys \cup {key}
DeleteBNode(key) == key \in keys /\ keys' = keys \ {key}

Next == \E key \in Keys : CreateBNode(key) \/ DeleteBNode(key)

Spec == Init /\ [][Next]_keys
=============================================================================
