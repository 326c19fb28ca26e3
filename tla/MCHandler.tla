------------------------------ MODULE MCHandler ------------------------------
(***************************************************************************)
(* Packets for TLC: the names a and b, whose hashes share a chain, and     *)
(* blocks for a directory and a few containers.                            *)
(***************************************************************************)
EXTENDS Handler

CONSTANTS a, b, l, m

Names == {a, b}
Chained == [n \in {a, b, Recycled} |-> 1]
A == User(a)
B == User(b)
Deep == <<A, B>>
MCTargets == {<<A>>, <<B>>, Deep, <<Up, B>>}
\* Two locks only on the same object, when it is the only one; a lock that is
\* alone is l, whatever it was called; a packet that is tried again has a path
\* from the root and leaves it at one lock, and a link at none.
FewLocks ==
  /\ Len(locks) = 1 => locks[1].id = l
  /\ Len(locks) = 2 => /\ locks[1].node = locks[2].node /\ locks[1].node > 2
                       /\ Cardinality(DOMAIN vol.nodes) <= 3
  /\ packet.op # "none" => packet.lock = NoLock
  /\ packet.op = "create" => /\ packet.new # m
                             /\ packet.kind = "link" => locks = <<>>
MCPaths == {<<A>>, <<B>>, Deep, <<User(Recycled), A>>}
=============================================================================
