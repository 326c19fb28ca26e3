--------------------------- MODULE MCTransactions ---------------------------
(***************************************************************************)
(* Transactions on two blocks of two longwords, for TLC.                   *)
(***************************************************************************)
EXTENDS Transactions, TLC

\* Buffers are interchangeable, and so are blocks.
Symmetry == {p @@ q : p \in Permutations(Buffer), q \in Permutations(Block)}

\* A volume whose blocks hold zeroes; other contents come by flushing.
MCInit == Init /\ disk = [b \in Block |-> Zero]
MCSpec == MCInit /\ [][Next]_vars

\* All contents with all the locks are too many states: the other block is
\* left alone, or the contents are left alone and only one buffer is locked.
Untouched(b) == /\ b \in live \cap liveSaved /\ b \notin prepared \cup held
                /\ \A x \in Buffer : cache[x].blck # b
                /\ \A l \in Level : op[l][b] = NoOperation
                /\ disk[b] = Zero

OnlyZeroes == /\ \A b \in Block : disk[b] = Zero
              /\ \A x \in Buffer : cache[x].data = Zero
              /\ \A l \in Level, b \in Block : \A c \in DOMAIN op[l][b].diff :
                   op[l][b].diff[c] = 0

Bounded == \/ \E b \in Block : Untouched(b)
           \/ OnlyZeroes /\ Cardinality(held) + Cardinality(prepared) <= 1
=============================================================================
